---- MODULE Spec2Model ----
(***************************************************************************)
(* Verification model of the transcript-analysis service:                  *)
(*   - correction-event ingestion (handlers.IngestCorrectionEvent) over    *)
(*     the PostgreSQL schema of utils.CreateSchema,                        *)
(*   - the completion-event workers and the result store                   *)
(*     (subscriber.processTranscriptionJob / processSummaryJob /           *)
(*     storeAnalysisResult, analyzer.AnalyzeTranscripts / AnalyzeSummary), *)
(*   - the retrying object fetcher (utils.DownloadS3Object).               *)
(***************************************************************************)
EXTENDS Integers, Sequences, FiniteSets, TLC

(***************************************************************************)
(* Bounds                                                                  *)
(***************************************************************************)
\* number of IngestCorrectionEvent calls running concurrently
NumCalls == 2
\* number of direct statements (UPDATE correction_events, INSERT INTO
\* word_corrections) issued outside IngestCorrectionEvent
MaxUpdates == 1

\* number of completion-event deliveries handled by worker goroutines
NumDeliveries == 2
\* number of uploads that replace the objects of a job
MaxUploads == 1

\* number of messages published on the channels
MaxPublished == 3
\* number of errors returned by ReceiveMessage
MaxReceiveErrors == 2

\* SQL NULL in a numeric column or argument
NULL == -1

(***************************************************************************)
(* Correction-event ingestion                                              *)
(***************************************************************************)
VARIABLES
    db,           \* committed rows: events, explanations, words, sentences
    events_seq,   \* last value of the SERIAL sequence of correction_events.id
    pend,         \* per call: rows written by its open transaction
    req,          \* per call: the CorrectionEventRequest
    pc,           \* per call: position in IngestCorrectionEvent
    idx,          \* per call: loop index in the current range loop
    rowsEv,       \* per call: RowsAffected of the event insert (-1 before)
    eventID,      \* per call: the scanned event id (0 before)
    ret,          \* per call: returned (id, err)
    counters,     \* expvar counters
    updates,      \* number of direct statements issued
    lastUpdate,   \* outcome of the last direct UPDATE statement
    incs,         \* per call: the increments it made to each counter
    fault,        \* per call: a statement of the call failed with a database error
    lastInsert    \* the last direct INSERT INTO word_corrections and its outcome

ingestVars == <<db, events_seq, pend, req, pc, idx, rowsEv, eventID, ret,
                counters, updates, lastUpdate, incs, fault, lastInsert>>

\* the completion-event workers and the result store
VARIABLES
    tables,       \* analysis_results and summary_analysis_results: sets of rows
    table_seq,    \* last value of each table's SERIAL id sequence
    objects,      \* the object store: key -> text
    clock,        \* time.Now()
    msg,          \* per delivery: channel and message
    wpc,          \* per delivery: position in processTranscriptionJob/processSummaryJob
    payload,      \* per delivery: the decoded payload
    refText,    \* per delivery: downloaded reference text
    hypText,   \* per delivery: downloaded hypothesis text
    result,       \* per delivery: the AnalysisResult
    lastStored,   \* per table and file name: the result of the latest applied write
    uploads,      \* number of uploads performed
    calls,        \* per delivery: the calls its worker has made, in order
    analysisErr   \* per delivery: the error returned by Analyze*

pipeVars == <<tables, table_seq, objects, clock, msg, wpc, payload, refText,
              hypText, result, lastStored, uploads, calls, analysisErr>>

\* the retrying object fetcher
VARIABLES
    s3env,        \* S3_RETRY_MAX_ATTEMPTS and S3_RETRY_DELAY_SECONDS
    plan,         \* what the object store answers to the 1st, 2nd, ... attempt
    dlpc,         \* position in DownloadS3Object
    maxAttempts,  \* local of DownloadS3Object
    retryDelay,   \* local of DownloadS3Object
    attempt,      \* loop variable of DownloadS3Object
    lastErr,      \* local of DownloadS3Object
    dlret,        \* returned (data, err)
    attemptsMade, \* number of GetObject calls made
    slept         \* the durations passed to time.Sleep, in order

dlVars == <<s3env, plan, dlpc, maxAttempts, retryDelay, attempt, lastErr, dlret,
            attemptsMade, slept>>

\* the subscription loops (subscriber.startSubscriber)
VARIABLES
    subpc,        \* per channel: position of its subscription loop
    inbox,        \* per channel: messages published and not yet received
    received,     \* per channel: the payloads ReceiveMessage has returned
    dispatched,   \* per channel: the payloads handed to "go processor"
    jobs,         \* per channel: state of each dispatched goroutine
    subSlept,     \* per channel: the durations passed to time.Sleep, in seconds
    npublished,   \* number of messages published
    nerrors       \* number of ReceiveMessage errors

subVars == <<subpc, inbox, received, dispatched, jobs, subSlept, npublished,
             nerrors>>

\* a retrieval by prompt id (handlers.HandleGetCorrectionEvent)
VARIABLES
    get           \* position, parameter, rows read so far and response

getVars == <<get>>

\* the text metrics (analyzer.ComputeWER, ComputeCER, ComputeBLEU)
VARIABLES
    texts,        \* the reference and the hypothesis text
    scores        \* the value each function has returned, once it was called

metVars == <<texts, scores>>

vars == <<ingestVars, pipeVars, dlVars, subVars, getVars, metVars>>

Procs == 1..NumCalls

\* CorrectionEventRequest payloads (json-bound; an absent int is Go's 0)
Word(b, a) == [before |-> b, after |-> a, position |-> NULL, confidence |-> NULL]
WordAt(b, a, pos) == [before |-> b, after |-> a, position |-> pos, confidence |-> NULL]
Expl(e, v) == [explanation |-> e, explanationVersion |-> v]
Sent(o, n) == [originalLocation |-> o, newLocation |-> n, transformation |-> "t"]

RequestList ==
    << [JobId |-> "j1", ModelId |-> "m1", PromptId |-> "p1", Source |-> "ui",
       Version |-> 2,
       Explanations |-> <<Expl("e1", 0)>>,
       Words |-> <<WordAt("a", "b", 1), WordAt("a", "b", 2)>>,
       Sentences |-> <<Sent("1", "2")>>],
      [JobId |-> "j2", ModelId |-> "m2", PromptId |-> "p1", Source |-> "api",
       Version |-> 0,
       Explanations |-> <<>>,
       Words |-> <<Word("c", "d"), Word("a", "b")>>,
       Sentences |-> <<>>],
      [JobId |-> "j1", ModelId |-> "m1", PromptId |-> "p2", Source |-> "ui",
       Version |-> 1,
       Explanations |-> <<Expl("e1", 1)>>,
       Words |-> <<>>,
       Sentences |-> <<Sent("1", "2")>>] >>

Requests == {RequestList[i] : i \in 1..Len(RequestList)}

\* the payloads of calls 1, 2, ...: the calls are interchangeable, so they
\* are numbered in the order of their payloads in RequestList
Assignments ==
    {[p \in Procs |-> RequestList[o[p]]] :
        o \in {f \in [Procs -> 1..Len(RequestList)] :
                 \A p, q \in Procs : p < q => f[p] <= f[q]}}

PromptIds == {r.PromptId : r \in Requests} \cup {"p9"}

NoEvent == [id |-> 0, job_id |-> "", model_id |-> "", prompt_id |-> "",
            source |-> "", version |-> NULL, by |-> 0]

NoRows == [events |-> {}, explanations |-> {}, words |-> {}, sentences |-> {}]

\* COALESCE($n, 1): the first argument that is not NULL
Coalesce(v, d) == IF v = NULL THEN d ELSE v

\* tx.Commit: the transaction's rows become visible to everyone
Commit(committed, written) ==
    [events       |-> committed.events \cup written.events,
     explanations |-> committed.explanations \cup written.explanations,
     words        |-> committed.words \cup written.words,
     sentences    |-> committed.sentences \cup written.sentences]

RollbackKeepsWrites(committed, written) == Commit(committed, written)

\* tx.Rollback (and the abort of a failed COMMIT): the rows are discarded
Rollback(committed, written) == committed

\* rows a statement of call p can see: committed rows and its own writes
Visible(p) == Commit(db, pend[p])

NoConflictCheck(rows, prompt) == FALSE

EventConflictOnAnyRow(rows, prompt) == rows # {}

\* UNIQUE (prompt_id): an existing row with this prompt id
EventConflict(rows, prompt) == \E e \in rows : e.prompt_id = prompt

NoWordConflictCheck(rows, ev, w) == FALSE

\* UNIQUE (event_id, before, after)
WordConflict(rows, ev, w) ==
    \E x \in rows : x.event_id = ev /\ x.before = w.before /\ x.after = w.after

\* a conflicting row of another open transaction makes the insert wait
EventBlocked(p) ==
    \E q \in Procs \ {p} : EventConflict(pend[q].events, req[p].PromptId)

WordBlocked(p, w) ==
    \E q \in Procs \ {p} : WordConflict(pend[q].words, eventID[p], w)

\* the next loop of IngestCorrectionEvent that has something to do
PhaseAfter(ph, r) ==
    IF ph = "selId" /\ Len(r.Explanations) > 0 THEN "expl"
    ELSE IF ph \in {"selId", "expl"} /\ Len(r.Words) > 0 THEN "words"
    ELSE IF ph \in {"selId", "expl", "words"} /\ Len(r.Sentences) > 0 THEN "sent"
    ELSE "commit"

BumpOverwrites(c) == [counters EXCEPT ![c] = 1]

\* expvar.Int.Add(1): an atomic increment
Bump(c) == [counters EXCEPT ![c] = @ + 1]

NoIncrements == [ingest |-> 0, dedupEvents |-> 0, dedupWords |-> 0, failures |-> 0]

\* the increment call p has just made is added to its tally
Counted(p, c) == [incs EXCEPT ![p][c] = @ + 1]

RowsAffectedAlwaysOne(conflict) == 1

\* res.RowsAffected() of an INSERT ... ON CONFLICT DO NOTHING
RowsAffected(conflict) == IF conflict THEN 0 ELSE 1

\* return 0, err after tx.Rollback()
Fail(p, countIt) ==
    /\ db' = Rollback(db, pend[p])
    /\ pend' = [pend EXCEPT ![p] = NoRows]
    /\ pc' = [pc EXCEPT ![p] = "done"]
    /\ ret' = [ret EXCEPT ![p] = [id |-> 0, err |-> TRUE]]
    /\ counters' = IF countIt THEN Bump("failures") ELSE counters
    /\ incs' = IF countIt THEN Counted(p, "failures") ELSE incs

NoInsert == [row |-> [event_id |-> 0, before |-> "", after |-> "", position |-> NULL,
                      confidence |-> NULL, by |-> 0, k |-> 0],
             outcome |-> "none", n |-> 0]

IngestInit ==
    /\ db = NoRows
    /\ events_seq = 0
    /\ pend = [p \in Procs |-> NoRows]
    /\ req \in Assignments
    /\ pc = [p \in Procs |-> "begin"]
    /\ idx = [p \in Procs |-> 1]
    /\ rowsEv = [p \in Procs |-> -1]
    /\ eventID = [p \in Procs |-> 0]
    /\ ret = [p \in Procs |-> [id |-> 0, err |-> FALSE]]
    /\ counters = [ingest |-> 0, dedupEvents |-> 0, dedupWords |-> 0, failures |-> 0]
    /\ updates = 0
    /\ lastUpdate = [old |-> NoEvent, new |-> NoEvent, outcome |-> "none"]
    /\ incs = [p \in Procs |-> NoIncrements]
    /\ fault = [p \in Procs |-> FALSE]
    /\ lastInsert = NoInsert

\* utils.DB.BeginTx
BeginTx(p) ==
    /\ pc[p] = "begin"
    /\ \/ /\ pc' = [pc EXCEPT ![p] = "insEvent"]
          /\ UNCHANGED <<ret, fault>>
       \/ /\ pc' = [pc EXCEPT ![p] = "done"]
          /\ ret' = [ret EXCEPT ![p] = [id |-> 0, err |-> TRUE]]
          /\ fault' = [fault EXCEPT ![p] = TRUE]
    /\ UNCHANGED <<db, events_seq, pend, req, idx, rowsEv, eventID, counters,
                   updates, lastUpdate>>
    /\ UNCHANGED incs
    /\ UNCHANGED lastInsert
    /\ UNCHANGED <<pipeVars, dlVars, subVars, getVars, metVars>>

\* INSERT INTO correction_events ... ON CONFLICT (prompt_id) DO NOTHING
InsertEvent(p) ==
    /\ pc[p] = "insEvent"
    /\ ~EventBlocked(p)
    /\ LET r == req[p]
           id == events_seq + 1
           row == [id |-> id, job_id |-> r.JobId, model_id |-> r.ModelId,
                   prompt_id |-> r.PromptId, source |-> r.Source,
                   version |-> Coalesce(r.Version, 1), by |-> p]
           rows == RowsAffected(EventConflict(Visible(p).events, r.PromptId))
       IN /\ events_seq' = id
          /\ rowsEv' = [rowsEv EXCEPT ![p] = rows]
          /\ pend' = IF EventConflict(Visible(p).events, r.PromptId) THEN pend
                     ELSE [pend EXCEPT ![p].events = @ \cup {row}]
          /\ IF rows = 0
             THEN /\ counters' = Bump("dedupEvents")
                  /\ incs' = Counted(p, "dedupEvents")
             ELSE /\ counters' = Bump("ingest")
                  /\ incs' = Counted(p, "ingest")
    /\ pc' = [pc EXCEPT ![p] = "selId"]
    /\ UNCHANGED <<db, req, idx, eventID, ret, updates, lastUpdate>>
    /\ UNCHANGED fault
    /\ UNCHANGED lastInsert
    /\ UNCHANGED <<pipeVars, dlVars, subVars, getVars, metVars>>

InsertEventFails(p) ==
    /\ pc[p] = "insEvent"
    /\ Fail(p, TRUE)
    /\ UNCHANGED <<events_seq, req, idx, rowsEv, eventID, updates, lastUpdate>>
    /\ fault' = [fault EXCEPT ![p] = TRUE]
    /\ UNCHANGED lastInsert
    /\ UNCHANGED <<pipeVars, dlVars, subVars, getVars, metVars>>

ResolveLastAllocatedId(rows, prompt) == {events_seq}

ResolveAnyEventId(rows, prompt) == {e.id : e \in rows}

\* SELECT id FROM correction_events WHERE prompt_id=$1: the ids found
ResolveEventId(rows, prompt) == {e.id : e \in {x \in rows : x.prompt_id = prompt}}

\* QueryRowContext(...).Scan(&eventID); sql.ErrNoRows when nothing is found
SelectEventId(p) ==
    /\ pc[p] = "selId"
    /\ LET found == ResolveEventId(Visible(p).events, req[p].PromptId)
       IN IF found = {}
          THEN /\ Fail(p, FALSE)
               /\ UNCHANGED <<eventID, idx>>
          ELSE /\ \E id \in found : eventID' = [eventID EXCEPT ![p] = id]
               /\ pc' = [pc EXCEPT ![p] = PhaseAfter("selId", req[p])]
               /\ idx' = [idx EXCEPT ![p] = 1]
               /\ UNCHANGED <<db, pend, ret, counters, incs>>
    /\ UNCHANGED <<events_seq, req, rowsEv, updates, lastUpdate>>
    /\ UNCHANGED fault
    /\ UNCHANGED lastInsert
    /\ UNCHANGED <<pipeVars, dlVars, subVars, getVars, metVars>>

SelectEventIdFails(p) ==
    /\ pc[p] = "selId"
    /\ Fail(p, FALSE)
    /\ UNCHANGED <<events_seq, req, idx, rowsEv, eventID, updates, lastUpdate>>
    /\ fault' = [fault EXCEPT ![p] = TRUE]
    /\ UNCHANGED lastInsert
    /\ UNCHANGED <<pipeVars, dlVars, subVars, getVars, metVars>>

\* advance the range loop, or move on to the next loop
Advance(p, ph, n) ==
    IF idx[p] < n
    THEN /\ idx' = [idx EXCEPT ![p] = @ + 1]
         /\ UNCHANGED pc
    ELSE /\ idx' = [idx EXCEPT ![p] = 1]
         /\ pc' = [pc EXCEPT ![p] = PhaseAfter(ph, req[p])]

\* INSERT INTO correction_explanations
InsertExplanation(p) ==
    /\ pc[p] = "expl"
    /\ LET e == req[p].Explanations[idx[p]]
           row == [event_id |-> eventID[p], explanation |-> e.explanation,
                   explanation_version |-> Coalesce(e.explanationVersion, 1),
                   by |-> p, k |-> idx[p]]
       IN pend' = [pend EXCEPT ![p].explanations = @ \cup {row}]
    /\ Advance(p, "expl", Len(req[p].Explanations))
    /\ UNCHANGED <<db, events_seq, req, rowsEv, eventID, ret, counters,
                   updates, lastUpdate>>
    /\ UNCHANGED <<incs, fault>>
    /\ UNCHANGED lastInsert
    /\ UNCHANGED <<pipeVars, dlVars, subVars, getVars, metVars>>

InsertExplanationFails(p) ==
    /\ pc[p] = "expl"
    /\ Fail(p, FALSE)
    /\ UNCHANGED <<events_seq, req, idx, rowsEv, eventID, updates, lastUpdate>>
    /\ fault' = [fault EXCEPT ![p] = TRUE]
    /\ UNCHANGED lastInsert
    /\ UNCHANGED <<pipeVars, dlVars, subVars, getVars, metVars>>

\* INSERT INTO word_corrections ... ON CONFLICT (event_id, before, after) DO NOTHING
InsertWord(p) ==
    /\ pc[p] = "words"
    /\ LET w == req[p].Words[idx[p]]
           row == [event_id |-> eventID[p], before |-> w.before, after |-> w.after,
                   position |-> w.position, confidence |-> w.confidence,
                   by |-> p, k |-> idx[p]]
           r == RowsAffected(WordConflict(Visible(p).words, eventID[p], w))
       IN /\ ~WordBlocked(p, w)
          /\ pend' = IF WordConflict(Visible(p).words, eventID[p], w) THEN pend
                     ELSE [pend EXCEPT ![p].words = @ \cup {row}]
          /\ IF r = 0
             THEN /\ counters' = Bump("dedupWords")
                  /\ incs' = Counted(p, "dedupWords")
             ELSE UNCHANGED <<counters, incs>>
    /\ Advance(p, "words", Len(req[p].Words))
    /\ UNCHANGED <<db, events_seq, req, rowsEv, eventID, ret, updates, lastUpdate>>
    /\ UNCHANGED fault
    /\ UNCHANGED lastInsert
    /\ UNCHANGED <<pipeVars, dlVars, subVars, getVars, metVars>>

InsertWordFails(p) ==
    /\ pc[p] = "words"
    /\ Fail(p, TRUE)
    /\ UNCHANGED <<events_seq, req, idx, rowsEv, eventID, updates, lastUpdate>>
    /\ fault' = [fault EXCEPT ![p] = TRUE]
    /\ UNCHANGED lastInsert
    /\ UNCHANGED <<pipeVars, dlVars, subVars, getVars, metVars>>

\* INSERT INTO sentence_movements
InsertSentence(p) ==
    /\ pc[p] = "sent"
    /\ LET s == req[p].Sentences[idx[p]]
           row == [event_id |-> eventID[p], original_location |-> s.originalLocation,
                   new_location |-> s.newLocation,
                   transformation |-> s.transformation, by |-> p, k |-> idx[p]]
       IN pend' = [pend EXCEPT ![p].sentences = @ \cup {row}]
    /\ Advance(p, "sent", Len(req[p].Sentences))
    /\ UNCHANGED <<db, events_seq, req, rowsEv, eventID, ret, counters,
                   updates, lastUpdate>>
    /\ UNCHANGED <<incs, fault>>
    /\ UNCHANGED lastInsert
    /\ UNCHANGED <<pipeVars, dlVars, subVars, getVars, metVars>>

InsertSentenceFails(p) ==
    /\ pc[p] = "sent"
    /\ Fail(p, TRUE)
    /\ UNCHANGED <<events_seq, req, idx, rowsEv, eventID, updates, lastUpdate>>
    /\ fault' = [fault EXCEPT ![p] = TRUE]
    /\ UNCHANGED lastInsert
    /\ UNCHANGED <<pipeVars, dlVars, subVars, getVars, metVars>>

\* tx.Commit() succeeds: return eventID, nil
CommitTx(p) ==
    /\ pc[p] = "commit"
    /\ db' = Commit(db, pend[p])
    /\ pend' = [pend EXCEPT ![p] = NoRows]
    /\ pc' = [pc EXCEPT ![p] = "done"]
    /\ ret' = [ret EXCEPT ![p] = [id |-> eventID[p], err |-> FALSE]]
    /\ UNCHANGED <<events_seq, req, idx, rowsEv, eventID, counters, updates,
                   lastUpdate>>
    /\ UNCHANGED <<incs, fault>>
    /\ UNCHANGED lastInsert
    /\ UNCHANGED <<pipeVars, dlVars, subVars, getVars, metVars>>

\* tx.Commit() fails: the database aborts the transaction; return 0, err
CommitTxFails(p) ==
    /\ pc[p] = "commit"
    /\ db' = db
    /\ pend' = [pend EXCEPT ![p] = NoRows]
    /\ pc' = [pc EXCEPT ![p] = "done"]
    /\ ret' = [ret EXCEPT ![p] = [id |-> 0, err |-> TRUE]]
    /\ UNCHANGED <<events_seq, req, idx, rowsEv, eventID, counters, updates,
                   lastUpdate>>
    /\ UNCHANGED incs
    /\ fault' = [fault EXCEPT ![p] = TRUE]
    /\ UNCHANGED lastInsert
    /\ UNCHANGED <<pipeVars, dlVars, subVars, getVars, metVars>>

TriggerDisabled(oldRow, newRow) == [raise |-> FALSE, row |-> newRow]

\* prevent_prompt_id_update(): BEFORE UPDATE row trigger; RAISE EXCEPTION
\* aborts the statement, otherwise the returned row replaces the old one
prevent_prompt_id_update(oldRow, newRow) ==
    IF newRow.prompt_id # oldRow.prompt_id
    THEN [raise |-> TRUE, row |-> oldRow]
    ELSE [raise |-> FALSE, row |-> newRow]

\* a direct UPDATE correction_events SET prompt_id=.., job_id=.. WHERE id=..
\* issued outside the ingestion component (autocommit)
UpdateEvent ==
    /\ updates < MaxUpdates
    /\ \E oldRow \in db.events, np \in PromptIds, nj \in {"j1", "j3"} :
         LET newRow == [oldRow EXCEPT !.prompt_id = np, !.job_id = nj]
             out == prevent_prompt_id_update(oldRow, newRow)
         IN /\ newRow # oldRow
            /\ IF out.raise
               THEN /\ UNCHANGED db
                    /\ lastUpdate' = [old |-> oldRow, new |-> newRow, outcome |-> "rejected"]
               ELSE IF EventConflict(db.events \ {oldRow}, out.row.prompt_id)
               THEN /\ UNCHANGED db
                    /\ lastUpdate' = [old |-> oldRow, new |-> newRow, outcome |-> "unique_violation"]
               ELSE /\ db' = [db EXCEPT !.events = (@ \ {oldRow}) \cup {out.row}]
                    /\ lastUpdate' = [old |-> oldRow, new |-> newRow, outcome |-> "updated"]
    /\ updates' = updates + 1
    /\ UNCHANGED <<events_seq, pend, req, pc, idx, rowsEv, eventID, ret, counters>>
    /\ UNCHANGED <<incs, fault>>
    /\ UNCHANGED lastInsert
    /\ UNCHANGED <<pipeVars, dlVars, subVars, getVars, metVars>>

DirectInsertOverwrites(rows, row) ==
    [outcome |-> "inserted",
     rows |-> {x \in rows : ~WordConflict({row}, x.event_id, x)} \cup {row}]

\* a plain INSERT INTO word_corrections(event_id, before, after, ...): a
\* row with the same (event_id, before, after) raises a unique violation,
\* otherwise the row is added
DirectInsert(rows, row) ==
    IF WordConflict(rows, row.event_id, row)
    THEN [outcome |-> "unique_violation", rows |-> rows]
    ELSE [outcome |-> "inserted", rows |-> rows \cup {row}]

\* a direct INSERT INTO word_corrections issued outside the ingestion
\* component (autocommit); it waits while an open transaction holds a
\* conflicting uncommitted row
InsertWordDirect ==
    /\ updates < MaxUpdates
    /\ \E e \in db.events :
         LET row == [event_id |-> e.id, before |-> "a", after |-> "b",
                     position |-> 9, confidence |-> NULL, by |-> 0, k |-> 0]
             out == DirectInsert(db.words, row)
         IN /\ \A q \in Procs : ~WordConflict(pend[q].words, row.event_id, row)
            /\ db' = [db EXCEPT !.words = out.rows]
            /\ lastInsert' = [row |-> row, outcome |-> out.outcome, n |-> updates + 1]
    /\ updates' = updates + 1
    /\ UNCHANGED <<events_seq, pend, req, pc, idx, rowsEv, eventID, ret, counters,
                   lastUpdate, incs, fault>>
    /\ UNCHANGED <<pipeVars, dlVars, subVars, getVars, metVars>>

IngestNext ==
    \/ \E p \in Procs : BeginTx(p)
    \/ \E p \in Procs : InsertEvent(p)
    \/ \E p \in Procs : InsertEventFails(p)
    \/ \E p \in Procs : SelectEventId(p)
    \/ \E p \in Procs : SelectEventIdFails(p)
    \/ \E p \in Procs : InsertExplanation(p)
    \/ \E p \in Procs : InsertExplanationFails(p)
    \/ \E p \in Procs : InsertWord(p)
    \/ \E p \in Procs : InsertWordFails(p)
    \/ \E p \in Procs : InsertSentence(p)
    \/ \E p \in Procs : InsertSentenceFails(p)
    \/ \E p \in Procs : CommitTx(p)
    \/ \E p \in Procs : CommitTxFails(p)
    \/ UpdateEvent
    \/ InsertWordDirect

(***************************************************************************)
(* Create and retrieve over HTTP (handlers.HandleCreateCorrectionEvent,    *)
(* handlers.HandleGetCorrectionEvent). The retrieval issues four separate  *)
(* queries outside any transaction.                                        *)
(***************************************************************************)
StatusOK == 200
StatusBadRequest == 400
StatusNotFound == 404
StatusInternalServerError == 500

\* the response of HandleCreateCorrectionEvent once IngestCorrectionEvent
\* of call p has returned
CreateResponse(p) ==
    IF ret[p].err THEN [status |-> StatusInternalServerError, eventId |-> 0]
    ELSE [status |-> StatusOK, eventId |-> ret[p].id]

GetOff == [pc |-> "off", promptId |-> "", status |-> 0, event |-> NoEvent,
           explanations |-> {}, words |-> {}, sentences |-> {},
           atStart |-> NoRows, after |-> {}, fault |-> FALSE]

GetInit == get = [GetOff EXCEPT !.pc = "event"]

\* a NULL in a TEXT column (no payload text equals it)
NullText == "\\N"

\* Scan into (int, string, string, string, string, sql.NullString, int):
\* a NULL in a column read into a plain Go type is an error
ScanEvent(e) == e.version # NULL

\* Scan into (string, int, string); explanation is NOT NULL
ScanExplanation(x) == x.explanation_version # NULL

\* Scan into (string, string, sql.NullInt64, sql.NullFloat64, string);
\* before and after are NOT NULL
ScanWord(x) == TRUE

\* Scan into four strings; the three text columns are nullable
ScanSentence(x) ==
    /\ x.original_location # NullText
    /\ x.new_location # NullText
    /\ x.transformation # NullText

RowsOfEventFirstOnly(rows, id) ==
    LET m == {x \in rows : x.event_id = id}
    IN IF m = {} THEN {} ELSE {CHOOSE x \in m : TRUE}

\* SELECT ... WHERE event_id = $1
RowsOfEvent(rows, id) == {x \in rows : x.event_id = id}

\* sql.NullString.String: "" when the column is NULL
NullString(v) == IF v = NullText THEN "" ELSE v

\* sql.NullInt64 / sql.NullFloat64 turned into a JSON value: nil when NULL
Nullable(v) == IF v = NULL THEN "null" ELSE v

\* the JSON objects of the response
EventJSON(e) ==
    [id |-> e.id, jobId |-> e.job_id, modelId |-> e.model_id, promptId |-> e.prompt_id,
     source |-> NullString(e.source), version |-> e.version]

ExplanationJSON(x) == [explanation |-> x.explanation, version |-> x.explanation_version]

WordJSON(x) ==
    [before |-> x.before, after |-> x.after, position |-> Nullable(x.position),
     confidence |-> Nullable(x.confidence)]

SentenceJSON(x) ==
    [originalLocation |-> x.original_location, newLocation |-> x.new_location,
     transformation |-> x.transformation]

\* c.JSON(http.StatusOK, ...) of HandleGetCorrectionEvent
GetResponse ==
    [event |-> EventJSON(get.event),
     explanations |-> {ExplanationJSON(x) : x \in get.explanations},
     words |-> {WordJSON(x) : x \in get.words},
     sentences |-> {SentenceJSON(x) : x \in get.sentences}]

\* promptId == "" is a bad request; otherwise the event is read by prompt id
QueryEvent ==
    /\ get.pc = "event"
    /\ \E P \in PromptIds \cup {""} :
         LET found == {e \in db.events : e.prompt_id = P}
             started == [get EXCEPT !.promptId = P, !.atStart = db,
                                    !.after = {p \in Procs : pc[p] = "done" /\ ~ret[p].err}]
         IN get' =
              IF P = "" THEN [started EXCEPT !.pc = "done", !.status = StatusBadRequest]
              ELSE IF found = {}
              THEN [started EXCEPT !.pc = "done", !.status = StatusNotFound]
              ELSE LET e == CHOOSE e \in found : TRUE
                   IN IF ScanEvent(e)
                      THEN [started EXCEPT !.pc = "explanations", !.event = e]
                      ELSE [started EXCEPT !.pc = "done",
                                           !.status = StatusInternalServerError]
    /\ UNCHANGED <<ingestVars, pipeVars, dlVars, subVars, metVars>>

\* rows whose Scan fails are skipped
QueryExplanations ==
    /\ get.pc = "explanations"
    /\ get' = [get EXCEPT !.pc = "words",
                  !.explanations = {x \in RowsOfEvent(db.explanations, get.event.id) :
                                       ScanExplanation(x)}]
    /\ UNCHANGED <<ingestVars, pipeVars, dlVars, subVars, metVars>>

QueryWords ==
    /\ get.pc = "words"
    /\ get' = [get EXCEPT !.pc = "sentences",
                  !.words = {x \in RowsOfEvent(db.words, get.event.id) : ScanWord(x)}]
    /\ UNCHANGED <<ingestVars, pipeVars, dlVars, subVars, metVars>>

QuerySentences ==
    /\ get.pc = "sentences"
    /\ get' = [get EXCEPT !.pc = "done", !.status = StatusOK,
                  !.sentences = {x \in RowsOfEvent(db.sentences, get.event.id) :
                                    ScanSentence(x)}]
    /\ UNCHANGED <<ingestVars, pipeVars, dlVars, subVars, metVars>>

\* a query returns a database error: "server error"
QueryFails ==
    /\ get.pc \in {"explanations", "words", "sentences"}
    /\ get' = [get EXCEPT !.pc = "done", !.status = StatusInternalServerError,
                          !.fault = TRUE]
    /\ UNCHANGED <<ingestVars, pipeVars, dlVars, subVars, metVars>>

GetNext ==
    \/ QueryEvent
    \/ QueryExplanations
    \/ QueryWords
    \/ QuerySentences
    \/ QueryFails

\* ingestions and one retrieval side by side
RetrieveNext ==
    \/ IngestNext
    \/ GetNext

(***************************************************************************)
(* Metrics engine (analyzer/metrics.go). A text is a Go string: a sequence  *)
(* of bytes. An ASCII byte is written as its character, any other byte as  *)
(* its two hex digits. A float64 ratio is kept exact as                    *)
(* <<numerator, denominator>>.                                             *)
(***************************************************************************)
\* longest text drawn from the alphabet
MaxLen == 3

\* largest argument length for which the distance is compared with the
\* cheapest alignment
MaxAligned == 5

\* the bytes texts are made of: "C3" starts a two-byte character, "A9"
\* and "B6" continue one ("C3" "A9" is U+00E9, "C3" "B6" is U+00F6)
LeadBytes == {"C3"}
ContinuationBytes == {"A9", "B6"}
Bytes == {"a", " ", "C3", "A9"}

\* utf8.RuneError (U+FFFD), as the string(r) made of it
RuneError == <<"EF", "BF", "BD">>

RunesAreBytes(text) == [i \in 1..Len(text) |-> <<text[i]>>]

RECURSIVE RunesFrom(_, _)
\* []rune(text) followed by string(r) of each rune: every code point as
\* the string of its encoding; a byte that starts no valid encoding
\* decodes to utf8.RuneError
RunesFrom(text, i) ==
    IF i > Len(text) THEN <<>>
    ELSE IF text[i] \in LeadBytes
         THEN IF i < Len(text) /\ text[i + 1] \in ContinuationBytes
              THEN <<SubSeq(text, i, i + 1)>> \o RunesFrom(text, i + 2)
              ELSE <<RuneError>> \o RunesFrom(text, i + 1)
         ELSE IF text[i] \in ContinuationBytes
              THEN <<RuneError>> \o RunesFrom(text, i + 1)
              ELSE <<SubSeq(text, i, i)>> \o RunesFrom(text, i + 1)

Runes(text) == RunesFrom(text, 1)

IsSpace(c) == c \in {" ", "\t", "\n"}

RECURSIVE FieldsFrom(_, _, _)
\* strings.Fields: the maximal runs of non-space runes, scanning from i with
\* the word cur collected so far
FieldsFrom(text, i, cur) ==
    IF i > Len(text)
    THEN IF cur = <<>> THEN <<>> ELSE <<cur>>
    ELSE IF IsSpace(text[i])
         THEN IF cur = <<>> THEN FieldsFrom(text, i + 1, <<>>)
              ELSE <<cur>> \o FieldsFrom(text, i + 1, <<>>)
         ELSE FieldsFrom(text, i + 1, Append(cur, text[i]))

Fields(text) == FieldsFrom(text, 1, <<>>)

Min3FirstTwo(a, b, c) == IF b < a THEN b ELSE a

\* min(a, b, rest...)
Min3(a, b, c) ==
    LET ab == IF b < a THEN b ELSE a IN IF c < ab THEN c ELSE ab

Min2(a, b) == IF b < a THEN b ELSE a

RECURSIVE fillRow(_, _, _, _, _)
\* the inner loop over j: row holds matrix[i][0..j-1] and prev is
\* matrix[i-1]; c is s1[i-1] of the code
fillRow(prev, c, s2, j, row) ==
    IF j > Len(s2) THEN row
    ELSE LET cost == IF c # s2[j] THEN 1 ELSE 0
             cell == Min3(prev[j + 1] + 1, row[j] + 1, prev[j] + cost)
         IN fillRow(prev, c, s2, j + 1, Append(row, cell))

RECURSIVE matrix(_, _, _)
\* the row matrix[i] of the table filled by levenshteinDistance; the cell
\* matrix[i][j] is its element j + 1
matrix(s1, s2, i) ==
    IF i = 0 THEN [j \in 1..(Len(s2) + 1) |-> j - 1]
    ELSE LET prev == matrix(s1, s2, i - 1)
         IN IF Len(prev) = Len(s2) + 1 THEN fillRow(prev, s1[i], s2, 1, <<i>>)
            ELSE prev

levenshteinDistance(s1, s2) == matrix(s1, s2, Len(s1))[Len(s2) + 1]

ComputeWEROverHypothesis(reference, hypothesis) ==
    LET refWords == Fields(reference)
        hypWords == Fields(hypothesis)
        distance == levenshteinDistance(refWords, hypWords)
    IN IF Len(hypWords) = 0
       THEN IF Len(refWords) = 0 THEN <<0, 1>> ELSE <<1, 1>>
       ELSE <<distance, Len(hypWords)>>

ComputeWER(reference, hypothesis) ==
    LET refWords == Fields(reference)
        hypWords == Fields(hypothesis)
        distance == levenshteinDistance(refWords, hypWords)
    IN IF Len(refWords) = 0
       THEN IF Len(hypWords) = 0 THEN <<0, 1>> ELSE <<1, 1>>
       ELSE <<distance, Len(refWords)>>

ComputeCER(reference, hypothesis) ==
    LET refStrings == Runes(reference)
        hypStrings == Runes(hypothesis)
        distance == levenshteinDistance(refStrings, hypStrings)
    IN IF Len(refStrings) = 0
       THEN IF Len(hypStrings) = 0 THEN <<0, 1>> ELSE <<1, 1>>
       ELSE <<distance, Len(refStrings)>>

RECURSIVE Join(_)
\* strings.Join(words, " ")
Join(words) ==
    IF Len(words) = 0 THEN <<>>
    ELSE IF Len(words) = 1 THEN words[1]
    ELSE words[1] \o <<" ">> \o Join(Tail(words))

\* getNgrams: the map from each n-gram of words to its number of occurrences
getNgrams(words, n) ==
    IF n > Len(words) THEN <<>>
    ELSE LET grams == {Join(SubSeq(words, i, i + n - 1)) : i \in 1..(Len(words) - n + 1)}
         IN [g \in grams |->
               Cardinality({i \in 1..(Len(words) - n + 1) :
                              Join(SubSeq(words, i, i + n - 1)) = g})]

RECURSIVE SumMatches(_, _, _)
\* the loop "for ngram := range hypNgrams" accumulating matches
SumMatches(keys, hypNgrams, refNgrams) ==
    IF keys = {} THEN 0
    ELSE LET g == CHOOSE x \in keys : TRUE
             m == IF g \in DOMAIN refNgrams /\ refNgrams[g] > 0
                  THEN Min2(hypNgrams[g], refNgrams[g]) ELSE 0
         IN m + SumMatches(keys \ {g}, hypNgrams, refNgrams)

maxN == 4

\* precisions[n-1] of ComputeBLEU: matches / len(hypNgrams)
Precision(refWords, hypWords, n) ==
    LET refNgrams == getNgrams(refWords, n)
        hypNgrams == getNgrams(hypWords, n)
    IN IF Cardinality(DOMAIN hypNgrams) = 0 THEN <<0, 1>>
       ELSE <<SumMatches(DOMAIN hypNgrams, hypNgrams, refNgrams),
              Cardinality(DOMAIN hypNgrams)>>

ComputeBLEUSmoothed(reference, hypothesis) ==
    LET refWords == Fields(reference)
        hypWords == Fields(hypothesis)
        precisions == [n \in 1..maxN |->
                         LET p == Precision(refWords, hypWords, n)
                         IN IF p[1] = 0 THEN <<1, 2 * p[2]>> ELSE p]
    IN IF Len(hypWords) = 0
       THEN [zero |-> TRUE, precisions |-> <<>>, refLen |-> 0, hypLen |-> 0]
       ELSE [zero |-> FALSE, precisions |-> precisions,
             refLen |-> IF Len(hypWords) < Len(refWords) THEN Len(refWords) ELSE 0,
             hypLen |-> IF Len(hypWords) < Len(refWords) THEN Len(hypWords) ELSE 0]

\* ComputeBLEU: 0 when the hypothesis has no word or a precision is 0;
\* otherwise bp * exp(sum(log p_n) / maxN), kept as its factors
ComputeBLEU(reference, hypothesis) ==
    LET refWords == Fields(reference)
        hypWords == Fields(hypothesis)
        precisions == [n \in 1..maxN |-> Precision(refWords, hypWords, n)]
        zero == [zero |-> TRUE, precisions |-> <<>>, refLen |-> 0, hypLen |-> 0]
    IN IF Len(hypWords) = 0 THEN zero
       ELSE IF \E n \in 1..maxN : precisions[n][1] = 0 THEN zero
       ELSE [zero |-> FALSE, precisions |-> precisions,
             refLen |-> IF Len(hypWords) < Len(refWords) THEN Len(refWords) ELSE 0,
             hypLen |-> IF Len(hypWords) < Len(refWords) THEN Len(hypWords) ELSE 0]

MetricNames == {"levenshteinDistance", "ComputeWER", "ComputeCER", "ComputeBLEU"}

\* no function has been called yet
NotCalled ==
    [called |-> {}, unit |-> "words", lev |-> 0, wer |-> <<0, 1>>, cer |-> <<0, 1>>,
     bleu |-> [zero |-> TRUE, precisions |-> <<>>, refLen |-> 0, hypLen |-> 0]]

AllCalled == [NotCalled EXCEPT !.called = MetricNames]

\* the words of the example texts
The == <<"t", "h", "e">>
Cat == <<"c", "a", "t">>
Sat == <<"s", "a", "t">>

ExampleTexts ==
    { Join(<< <<"a">>, <<"b">>, <<"c">> >>),
      Join(<< <<"a">>, <<"b">> >>),
      Join(<< <<"a">>, <<"b">>, <<"c">>, <<"d">> >>),
      Join(<< <<"a">>, <<"b">>, <<"c">>, <<"e">> >>),
      Join(<< <<"a">>, <<"a">>, <<"a">>, <<"a">>, <<"a">> >>),
      Join(<<The, Cat, Sat>>),
      <<"a", "C3", "A9">>, <<"a", "C3", "B6">> }

\* every text of at most MaxLen bytes, and the examples
Texts == UNION {[1..n -> Bytes] : n \in 0..MaxLen} \cup ExampleTexts

MetInit ==
    /\ texts \in [reference : Texts, hypothesis : Texts]
    /\ scores = NotCalled

\* the slices levenshteinDistance is called with: the words (ComputeWER)
\* or the characters (ComputeCER) of the two texts
Tokens(text, unit) == IF unit = "words" THEN Fields(text) ELSE Runes(text)

CallLevenshtein ==
    /\ scores.called = {}
    /\ \E unit \in {"words", "chars"} :
         scores' = [scores EXCEPT
                      !.called = {"levenshteinDistance"},
                      !.unit = unit,
                      !.lev = levenshteinDistance(Tokens(texts.reference, unit),
                                                  Tokens(texts.hypothesis, unit))]
    /\ UNCHANGED <<ingestVars, pipeVars, dlVars, subVars, getVars, texts>>

CallWER ==
    /\ scores.called = {}
    /\ scores' = [scores EXCEPT !.called = {"ComputeWER"},
                                !.wer = ComputeWER(texts.reference, texts.hypothesis)]
    /\ UNCHANGED <<ingestVars, pipeVars, dlVars, subVars, getVars, texts>>

CallCER ==
    /\ scores.called = {}
    /\ scores' = [scores EXCEPT !.called = {"ComputeCER"},
                                !.cer = ComputeCER(texts.reference, texts.hypothesis)]
    /\ UNCHANGED <<ingestVars, pipeVars, dlVars, subVars, getVars, texts>>

CallBLEU ==
    /\ scores.called = {}
    /\ scores' = [scores EXCEPT !.called = {"ComputeBLEU"},
                                !.bleu = ComputeBLEU(texts.reference, texts.hypothesis)]
    /\ UNCHANGED <<ingestVars, pipeVars, dlVars, subVars, getVars, texts>>

MetNext ==
    \/ CallLevenshtein
    \/ CallWER
    \/ CallCER
    \/ CallBLEU

(***************************************************************************)
(* Completion-event workers and the result store                           *)
(***************************************************************************)

Deliveries == 1..NumDeliveries

TranscribeCompleteChannel == "transcribe_complete"
SummaryCompleteChannel == "summary_complete"
TableNames == {"analysis_results", "summary_analysis_results"}

\* a path segment: a name followed by a literal suffix
Seg(name, suffix) == [n |-> name, s |-> suffix]
\* the string made of a name only
Str(name) == Seg(name, "")
\* fmt.Sprintf("%s/%s<suffix>", job, job), as its "/"-separated parts
JobKey(job, suffix) == <<Str(job), Seg(job, suffix)>>

J1 == <<"j", "1">>
InDir == <<"i", "n">>

\* the (transcription, corrected) texts an upload may carry
UploadedTexts ==
    { << <<"a", " ", "b">>, <<"a", " ", "b">> >>,
      << <<"a", " ", "b">>, <<"a">> >>,
      << <<"a", " ", "b">>, <<>> >>,
      << <<>>, <<>> >> }

\* keys of the objects held by the store
ObjKeys ==
    { JobKey(J1, "_transcribed.txt"), JobKey(J1, "_corrected.txt"),
      JobKey(J1, "_original.txt"), JobKey(J1, "_summary.txt"),
      <<Str(InDir), Seg(<<"t">>, ".txt")>>, <<Str(InDir), Seg(<<"c">>, ".txt")>> }

JsonMsg(ch, job, f1, f2) ==
    [chan |-> ch, shape |-> "json", job |-> job, bucket |-> "medsum-data",
     file1 |-> f1, file2 |-> f2]
\* a JSON string literal holding a job id
QuotedMsg(ch, job) ==
    [chan |-> ch, shape |-> "quoted", job |-> job, bucket |-> "",
     file1 |-> <<>>, file2 |-> <<>>]
\* the bare job id
BareMsg(ch, job) ==
    [chan |-> ch, shape |-> "bare", job |-> job, bucket |-> "",
     file1 |-> <<>>, file2 |-> <<>>]

\* the message {} (and likewise null): JSON that names none of the fields
EmptyObjectMsg(ch) ==
    [chan |-> ch, shape |-> "json", job |-> <<>>, bucket |-> "",
     file1 |-> <<>>, file2 |-> <<>>]

Messages ==
    { EmptyObjectMsg(TranscribeCompleteChannel),
      JsonMsg(TranscribeCompleteChannel, J1,
              JobKey(J1, "_transcribed.txt"), JobKey(J1, "_corrected.txt")),
      JsonMsg(TranscribeCompleteChannel, J1,
              <<Str(InDir), Seg(<<"t">>, ".txt")>>, <<Str(InDir), Seg(<<"c">>, ".txt")>>),
      BareMsg(TranscribeCompleteChannel, <<" ">> \o J1),
      QuotedMsg(SummaryCompleteChannel, J1) }

RECURSIVE TrimLeft(_)
TrimLeft(t) == IF t # <<>> /\ IsSpace(Head(t)) THEN TrimLeft(Tail(t)) ELSE t

RECURSIVE TrimRight(_)
TrimRight(t) ==
    IF t # <<>> /\ IsSpace(t[Len(t)]) THEN TrimRight(SubSeq(t, 1, Len(t) - 1)) ELSE t

\* strings.TrimSpace
TrimSpace(t) == TrimRight(TrimLeft(t))

\* json.Unmarshal([]byte(message), &payload): only a JSON object (or null)
\* decodes into the payload struct; fields the message lacks stay empty
Unmarshal(m) == [err |-> m.shape # "json"]

\* strconv.Unquote(message): only a quoted string literal unquotes
Unquote(m) == [err |-> m.shape # "quoted", s |-> m.job]

NoPayload == [Job |-> <<>>, Bucket |-> "", File1 |-> <<>>, File2 |-> <<>>, ok |-> FALSE]

\* the payload both legacy tiers build for a job id
LegacyPayload(job, suffix1, suffix2) ==
    IF job = <<>> THEN NoPayload
    ELSE [Job |-> job, Bucket |-> "medsum-data", File1 |-> JobKey(job, suffix1),
          File2 |-> JobKey(job, suffix2), ok |-> TRUE]

\* processTranscriptionJob, decoding: File1 is TranscribedFile, File2 is CorrectedFile
DecodeTranscription(m) ==
    IF ~Unmarshal(m).err
    THEN [Job |-> m.job, Bucket |-> m.bucket, File1 |-> m.file1, File2 |-> m.file2,
          ok |-> TRUE]
    ELSE IF Unquote(m).err
         THEN LegacyPayload(TrimSpace(m.job), "_transcribed.txt", "_corrected.txt")
         ELSE LegacyPayload(TrimSpace(Unquote(m).s), "_transcribed.txt", "_corrected.txt")

\* processSummaryJob, decoding: File1 is OriginalFile, File2 is SummaryFile
DecodeSummary(m) ==
    IF ~Unmarshal(m).err
    THEN [Job |-> m.job, Bucket |-> m.bucket, File1 |-> m.file1, File2 |-> m.file2,
          ok |-> TRUE]
    ELSE IF Unquote(m).err
         THEN LegacyPayload(TrimSpace(m.job), "_original.txt", "_summary.txt")
         ELSE LegacyPayload(TrimSpace(Unquote(m).s), "_original.txt", "_corrected.txt")

TableOf(ch) ==
    IF ch = TranscribeCompleteChannel THEN "analysis_results"
    ELSE "summary_analysis_results"

\* extractJobFromPath: the second-to-last part of the path, or the path
extractJobFromPath(path) ==
    IF Len(path) >= 2 THEN path[Len(path) - 1] ELSE path[1]

\* the errors AnalyzeTranscripts / AnalyzeSummary return
NoError == "nil"
DownloadOriginalError == "failed to download original file"
DownloadHypothesisError == "failed to download transcribed file"
ComputeMetricsError == "failed to compute metrics"

NoMetrics == [zero |-> TRUE, precisions |-> <<>>, refLen |-> 0, hypLen |-> 0]
NoResult == [FileName |-> Str(<<>>), WER |-> <<0, 1>>, CER |-> <<0, 1>>,
             BLEU |-> NoMetrics, Timestamp |-> 0, err |-> TRUE]

computeMetricsUnchecked(ref, hyp) ==
    [FileName |-> Str(<<>>), WER |-> ComputeWER(ref, hyp),
     CER |-> ComputeCER(ref, hyp), BLEU |-> ComputeBLEU(ref, hyp),
     Timestamp |-> 0, err |-> FALSE]

\* computeMetrics: an empty reference or hypothesis is an error; otherwise
\* the three metric functions are called
computeMetrics(ref, hyp) ==
    IF ref = <<>> \/ hyp = <<>> THEN NoResult
    ELSE [FileName |-> Str(<<>>), WER |-> ComputeWER(ref, hyp),
          CER |-> ComputeCER(ref, hyp), BLEU |-> ComputeBLEU(ref, hyp),
          Timestamp |-> 0, err |-> FALSE]

InsertKeepingExisting(rows, id, r) ==
    IF \E x \in rows : x.file_name = r.FileName THEN rows
    ELSE rows \cup {[id |-> id, file_name |-> r.FileName, wer |-> r.WER,
                     cer |-> r.CER, bleu |-> r.BLEU, created_at |-> r.Timestamp,
                     updated_at |-> r.Timestamp]}

PlainInsert(rows, id, r) ==
    rows \cup {[id |-> id, file_name |-> r.FileName, wer |-> r.WER,
                cer |-> r.CER, bleu |-> r.BLEU, created_at |-> r.Timestamp,
                updated_at |-> r.Timestamp]}

UpsertReplacingRow(rows, id, r) ==
    {x \in rows : x.file_name # r.FileName}
    \cup {[id |-> id, file_name |-> r.FileName, wer |-> r.WER,
            cer |-> r.CER, bleu |-> r.BLEU, created_at |-> r.Timestamp,
            updated_at |-> r.Timestamp]}

\* INSERT INTO <table> ... ON CONFLICT (file_name) DO UPDATE SET wer, cer,
\* bleu, updated_at = EXCLUDED.*
Upsert(rows, id, r) ==
    IF \E x \in rows : x.file_name = r.FileName
    THEN {IF x.file_name = r.FileName
          THEN [x EXCEPT !.wer = r.WER, !.cer = r.CER, !.bleu = r.BLEU,
                         !.updated_at = r.Timestamp]
          ELSE x : x \in rows}
    ELSE rows \cup {[id |-> id, file_name |-> r.FileName, wer |-> r.WER,
                     cer |-> r.CER, bleu |-> r.BLEU, created_at |-> r.Timestamp,
                     updated_at |-> r.Timestamp]}

PipeInit ==
    /\ tables = [t \in TableNames |-> {}]
    /\ table_seq = [t \in TableNames |-> 0]
    /\ objects = [k \in ObjKeys |-> IF k[2].s \in {"_corrected.txt", "_summary.txt"}
                                    THEN <<"a", " ", "c">> ELSE <<"a", " ", "b">>]
    /\ clock = 1
    /\ msg \in [Deliveries -> Messages]
    /\ wpc = [w \in Deliveries |-> "decode"]
    /\ payload = [w \in Deliveries |-> NoPayload]
    /\ refText = [w \in Deliveries |-> <<>>]
    /\ hypText = [w \in Deliveries |-> <<>>]
    /\ result = [w \in Deliveries |-> NoResult]
    /\ lastStored = [t \in TableNames |-> <<>>]
    /\ uploads = 0
    /\ calls = [w \in Deliveries |-> <<>>]
    /\ analysisErr = [w \in Deliveries |-> NoError]

\* one more call made by the worker of delivery w
Called(w, what) == calls' = [calls EXCEPT ![w] = Append(@, what)]

\* go processor(logger, msg.Payload): the three-tier decoding, then the call
\* of analyzer.AnalyzeTranscripts / analyzer.AnalyzeSummary
Decode(w) ==
    /\ wpc[w] = "decode"
    /\ LET p == IF msg[w].chan = TranscribeCompleteChannel
                THEN DecodeTranscription(msg[w]) ELSE DecodeSummary(msg[w])
       IN /\ payload' = [payload EXCEPT ![w] = p]
          /\ wpc' = [wpc EXCEPT ![w] = IF p.ok THEN "fetchRef" ELSE "done"]
          /\ IF p.ok THEN Called(w, "Analyze") ELSE UNCHANGED calls
    /\ UNCHANGED <<tables, table_seq, objects, clock, msg, refText, hypText,
                   result, lastStored, uploads, analysisErr>>
    /\ UNCHANGED <<ingestVars, dlVars, subVars, getVars, metVars>>

\* AnalyzeTranscripts / AnalyzeSummary: the first download, of the key passed
\* as originalFilePath, into the local named reference / original
FetchReference(w) ==
    /\ wpc[w] = "fetchRef"
    /\ payload[w].File1 \in DOMAIN objects
    /\ refText' = [refText EXCEPT ![w] = objects[payload[w].File1]]
    /\ wpc' = [wpc EXCEPT ![w] = "fetchHyp"]
    /\ Called(w, "downloadReference")
    /\ UNCHANGED <<tables, table_seq, objects, clock, msg, payload, hypText,
                   result, lastStored, uploads, analysisErr>>
    /\ UNCHANGED <<ingestVars, dlVars, subVars, getVars, metVars>>

\* the second download, of the key passed as transcribedFilePath /
\* summaryFilePath, into the local named hypothesis / summary
FetchHypothesis(w) ==
    /\ wpc[w] = "fetchHyp"
    /\ payload[w].File2 \in DOMAIN objects
    /\ hypText' = [hypText EXCEPT ![w] = objects[payload[w].File2]]
    /\ wpc' = [wpc EXCEPT ![w] = "compute"]
    /\ Called(w, "downloadHypothesis")
    /\ UNCHANGED <<tables, table_seq, objects, clock, msg, payload, refText,
                   result, lastStored, uploads, analysisErr>>
    /\ UNCHANGED <<ingestVars, dlVars, subVars, getVars, metVars>>

FetchFailsIgnored(w) ==
    /\ wpc[w] \in {"fetchRef", "fetchHyp"}
    /\ wpc' = [wpc EXCEPT ![w] = IF wpc[w] = "fetchRef" THEN "fetchHyp" ELSE "compute"]
    /\ Called(w, IF wpc[w] = "fetchRef" THEN "downloadReference"
                 ELSE "downloadHypothesis")
    /\ analysisErr' = [analysisErr EXCEPT ![w] =
          IF wpc[w] = "fetchRef" THEN DownloadOriginalError
          ELSE DownloadHypothesisError]
    /\ UNCHANGED <<tables, table_seq, objects, clock, msg, payload, refText,
                   hypText, result, lastStored, uploads>>
    /\ UNCHANGED <<ingestVars, dlVars, subVars, getVars, metVars>>

FetchFailsRetried(w) ==
    /\ wpc[w] \in {"fetchRef", "fetchHyp"}
    /\ wpc' = [wpc EXCEPT ![w] = IF Len(calls[w]) < 6 THEN "fetchRef" ELSE "done"]
    /\ calls' = [calls EXCEPT ![w] =
          @ \o <<IF wpc[w] = "fetchRef" THEN "downloadReference"
                 ELSE "downloadHypothesis">>
            \o (IF Len(calls[w]) < 6 THEN <<"Analyze">> ELSE <<>>)]
    /\ analysisErr' = [analysisErr EXCEPT ![w] =
          IF wpc[w] = "fetchRef" THEN DownloadOriginalError
          ELSE DownloadHypothesisError]
    /\ UNCHANGED <<tables, table_seq, objects, clock, msg, payload, refText,
                   hypText, result, lastStored, uploads>>
    /\ UNCHANGED <<ingestVars, dlVars, subVars, getVars, metVars>>

\* a download exhausts its retries: Analyze* returns nil and "failed to
\* download original file" / "failed to download transcribed (summary) file";
\* the worker logs "Analysis process failed" and returns
FetchFails(w) ==
    /\ wpc[w] \in {"fetchRef", "fetchHyp"}
    /\ wpc' = [wpc EXCEPT ![w] = "done"]
    /\ Called(w, IF wpc[w] = "fetchRef" THEN "downloadReference"
                 ELSE "downloadHypothesis")
    /\ analysisErr' = [analysisErr EXCEPT ![w] =
          IF wpc[w] = "fetchRef" THEN DownloadOriginalError
          ELSE DownloadHypothesisError]
    /\ UNCHANGED <<tables, table_seq, objects, clock, msg, payload, refText,
                   hypText, result, lastStored, uploads>>
    /\ UNCHANGED <<ingestVars, dlVars, subVars, getVars, metVars>>

\* computeMetrics, then FileName and Timestamp are set; on its error
\* Analyze* returns nil and "failed to compute metrics"
Compute(w) ==
    /\ wpc[w] = "compute"
    /\ LET m == computeMetrics(refText[w], hypText[w])
       IN IF m.err
          THEN /\ wpc' = [wpc EXCEPT ![w] = "done"]
               /\ analysisErr' = [analysisErr EXCEPT ![w] = ComputeMetricsError]
               /\ Called(w, "computeMetrics")
               /\ UNCHANGED <<result, clock>>
          ELSE /\ result' = [result EXCEPT ![w] =
                     [m EXCEPT !.FileName = extractJobFromPath(payload[w].File2),
                               !.Timestamp = clock]]
               /\ clock' = clock + 1
               /\ wpc' = [wpc EXCEPT ![w] = "store"]
               /\ calls' = [calls EXCEPT ![w] = @ \o <<"computeMetrics", "Metrics">>]
               /\ UNCHANGED analysisErr
    /\ UNCHANGED <<tables, table_seq, objects, msg, payload, refText,
                   hypText, lastStored, uploads>>
    /\ UNCHANGED <<ingestVars, dlVars, subVars, getVars, metVars>>

\* storeAnalysisResult(logger, tableName, payload.Job, result)
Store(w) ==
    /\ wpc[w] = "store"
    /\ LET t == TableOf(msg[w].chan)
           id == table_seq[t] + 1
       IN /\ table_seq' = [table_seq EXCEPT ![t] = id]
          /\ tables' = [tables EXCEPT ![t] = Upsert(@, id, result[w])]
          /\ lastStored' = [lastStored EXCEPT ![t] =
                [k \in DOMAIN @ \cup {result[w].FileName} |->
                    IF k = result[w].FileName THEN result[w] ELSE @[k]]]
    /\ wpc' = [wpc EXCEPT ![w] = "stored"]
    /\ Called(w, "storeAnalysisResult")
    /\ UNCHANGED <<objects, clock, msg, payload, refText, hypText, result,
                   uploads, analysisErr>>
    /\ UNCHANGED <<ingestVars, dlVars, subVars, getVars, metVars>>

\* the ExecContext of storeAnalysisResult fails: "Result storage failed"
StoreFails(w) ==
    /\ wpc[w] = "store"
    /\ wpc' = [wpc EXCEPT ![w] = "done"]
    /\ Called(w, "storeAnalysisResult")
    /\ UNCHANGED <<tables, table_seq, objects, clock, msg, payload, refText,
                   hypText, result, lastStored, uploads, analysisErr>>
    /\ UNCHANGED <<ingestVars, dlVars, subVars, getVars, metVars>>

\* HandleTranscriptionUpload: both files of a job are replaced
Upload ==
    /\ uploads < MaxUploads
    /\ \E t \in UploadedTexts :
          objects' = [objects EXCEPT ![JobKey(J1, "_transcribed.txt")] = t[1],
                                     ![JobKey(J1, "_corrected.txt")] = t[2]]
    /\ uploads' = uploads + 1
    /\ UNCHANGED <<tables, table_seq, clock, msg, wpc, payload, refText,
                   hypText, result, lastStored, calls, analysisErr>>
    /\ UNCHANGED <<ingestVars, dlVars, subVars, getVars, metVars>>

PipeNext ==
    \/ \E w \in Deliveries : Decode(w)
    \/ \E w \in Deliveries : FetchReference(w)
    \/ \E w \in Deliveries : FetchHypothesis(w)
    \/ \E w \in Deliveries : FetchFails(w)
    \/ \E w \in Deliveries : Compute(w)
    \/ \E w \in Deliveries : Store(w)
    \/ \E w \in Deliveries : StoreFails(w)
    \/ Upload

(***************************************************************************)
(* Retrying object fetcher (utils.DownloadS3Object)                        *)
(***************************************************************************)
\* longest sequence of answers of the object store that is planned
MaxPlan == 3

Digits == <<"0", "1", "2", "3", "4", "5", "6", "7", "8", "9">>
IsDigit(c) == \E d \in 1..10 : Digits[d] = c
DigitVal(c) == (CHOOSE d \in 1..10 : Digits[d] = c) - 1

RECURSIVE ParseDigits(_, _, _)
ParseDigits(str, i, acc) ==
    IF i > Len(str) THEN acc
    ELSE ParseDigits(str, i + 1, acc * 10 + DigitVal(str[i]))

\* strconv.Atoi: an optional sign followed by one or more decimal digits
Atoi(str) ==
    LET signed == str # <<>> /\ str[1] \in {"+", "-"}
        body == IF signed THEN Tail(str) ELSE str
    IN IF body = <<>> \/ \E i \in 1..Len(body) : ~IsDigit(body[i])
       THEN [err |-> TRUE, val |-> 0]
       ELSE [err |-> FALSE,
             val |-> IF signed /\ str[1] = "-" THEN 0 - ParseDigits(body, 1, 0)
                     ELSE ParseDigits(body, 1, 0)]

\* GetEnvOrDefault: an unset variable reads as ""
GetEnvOrDefault(val, defaultVal) == IF val = <<>> THEN defaultVal ELSE val

getRetryMaxAttemptsUnchecked(env) == Atoi(GetEnvOrDefault(env, <<"3">>)).val

getRetryMaxAttempts(env) ==
    LET r == Atoi(GetEnvOrDefault(env, <<"3">>))
    IN IF r.err \/ r.val < 1 THEN 3 ELSE r.val

getRetryDelaySeconds(env) ==
    LET r == Atoi(GetEnvOrDefault(env, <<"2", "0">>))
    IN IF r.err \/ r.val < 0 THEN 20 ELSE r.val

\* values of S3_RETRY_MAX_ATTEMPTS (<<>> is unset) whose attempts are planned
MaxAttemptsSettings ==
    {e \in { <<>>, <<"x">>, <<"0">>, <<"-", "1">>, <<"1">>, <<"2">>, <<"+", "3">>,
             <<"0", "4">>, <<"5">>, <<"2", "x">> } :
        getRetryMaxAttempts(e) <= MaxPlan}

RetryDelaySettings == { <<>>, <<"-", "5">>, <<"0">>, <<"7">> }

\* what the object store does on one attempt: GetObject fails, or GetObject
\* succeeds and reading the body fails, or the body is read
Answers ==
    { [kind |-> "getErr", err |-> "NotFound", data |-> ""],
      [kind |-> "getErr", err |-> "Transient", data |-> ""],
      [kind |-> "readErr", err |-> "ReadFailed", data |-> ""],
      [kind |-> "ok", err |-> "", data |-> "d1"],
      [kind |-> "ok", err |-> "", data |-> "d2"] }

NoErr == [e |-> "", at |-> 0]
NoReturn == [ok |-> FALSE, data |-> "", wraps |-> NoErr, attempts |-> 0]

LoopCondStrict(a, m) == a < m

\* the loop condition attempt <= maxAttempts
LoopCond(a, m) == a <= m

KeepFirstErr(cur, e) == IF cur = NoErr THEN e ELSE cur

\* lastErr = err
SetLastErr(cur, e) == e

DlInit ==
    /\ s3env \in [max : MaxAttemptsSettings, delay : RetryDelaySettings]
    /\ plan \in [1..MaxPlan -> Answers]
    /\ dlpc = "idle"
    /\ maxAttempts = 0
    /\ retryDelay = 0
    /\ attempt = 0
    /\ lastErr = NoErr
    /\ dlret = NoReturn
    /\ attemptsMade = 0
    /\ slept = <<>>

DlIdle ==
    /\ s3env = [max |-> <<>>, delay |-> <<>>]
    /\ plan = [i \in 1..MaxPlan |-> [kind |-> "ok", err |-> "", data |-> "d1"]]
    /\ dlpc = "done"
    /\ maxAttempts = 0
    /\ retryDelay = 0
    /\ attempt = 0
    /\ lastErr = NoErr
    /\ dlret = NoReturn
    /\ attemptsMade = 0
    /\ slept = <<>>

\* leave the loop body with attempt a: attempt++, then either the next
\* iteration or the return after the loop
NextIteration(a, err) ==
    IF LoopCond(a + 1, maxAttempts)
    THEN /\ dlpc' = "get"
         /\ UNCHANGED dlret
    ELSE /\ dlpc' = "done"
         /\ dlret' = [ok |-> FALSE, data |-> "", wraps |-> err,
                      attempts |-> maxAttempts]

\* DownloadS3Object up to the first loop test (S3Client is set: main stops
\* when InitS3 fails)
DlStart ==
    /\ dlpc = "idle"
    /\ LET m == getRetryMaxAttempts(s3env.max)
       IN /\ maxAttempts' = m
          /\ IF LoopCond(1, m)
             THEN dlpc' = "get" /\ UNCHANGED dlret
             ELSE /\ dlpc' = "done"
                  /\ dlret' = [ok |-> FALSE, data |-> "", wraps |-> lastErr,
                               attempts |-> m]
    /\ retryDelay' = getRetryDelaySeconds(s3env.delay)
    /\ attempt' = 1
    /\ UNCHANGED <<s3env, plan, lastErr, attemptsMade, slept>>
    /\ UNCHANGED <<ingestVars, pipeVars, subVars, getVars, metVars>>

AttemptFailsSleepsAlways(e) ==
    /\ lastErr' = SetLastErr(lastErr, [e |-> e, at |-> attempt])
    /\ slept' = Append(slept, retryDelay)
    /\ attempt' = attempt + 1
    /\ NextIteration(attempt, lastErr')

\* the failure branch shared by GetObject and io.ReadAll
AttemptFails(e) ==
    /\ lastErr' = SetLastErr(lastErr, [e |-> e, at |-> attempt])
    /\ slept' = IF attempt < maxAttempts THEN Append(slept, retryDelay) ELSE slept
    /\ attempt' = attempt + 1
    /\ NextIteration(attempt, lastErr')

GetObjectFailsFastOnNotFound ==
    /\ dlpc = "get"
    /\ plan[attempt].kind = "getErr"
    /\ attemptsMade' = attemptsMade + 1
    /\ IF plan[attempt].err = "NotFound"
       THEN /\ lastErr' = [e |-> "NotFound", at |-> attempt]
            /\ dlpc' = "done"
            /\ dlret' = [ok |-> FALSE, data |-> "", wraps |-> lastErr',
                         attempts |-> maxAttempts]
            /\ UNCHANGED <<attempt, slept>>
       ELSE AttemptFails(plan[attempt].err)
    /\ UNCHANGED <<s3env, plan, maxAttempts, retryDelay>>
    /\ UNCHANGED <<ingestVars, pipeVars, subVars, getVars, metVars>>

\* S3Client.GetObject returns an error
GetObjectFails ==
    /\ dlpc = "get"
    /\ plan[attempt].kind = "getErr"
    /\ attemptsMade' = attemptsMade + 1
    /\ AttemptFails(plan[attempt].err)
    /\ UNCHANGED <<s3env, plan, maxAttempts, retryDelay>>
    /\ UNCHANGED <<ingestVars, pipeVars, subVars, getVars, metVars>>

\* S3Client.GetObject returns a body
GetObjectOk ==
    /\ dlpc = "get"
    /\ plan[attempt].kind # "getErr"
    /\ attemptsMade' = attemptsMade + 1
    /\ dlpc' = "read"
    /\ UNCHANGED <<s3env, plan, maxAttempts, retryDelay, attempt, lastErr, dlret, slept>>
    /\ UNCHANGED <<ingestVars, pipeVars, subVars, getVars, metVars>>

\* io.ReadAll(result.Body) returns an error
ReadAllFails ==
    /\ dlpc = "read"
    /\ plan[attempt].kind = "readErr"
    /\ AttemptFails(plan[attempt].err)
    /\ UNCHANGED <<s3env, plan, maxAttempts, retryDelay, attemptsMade>>
    /\ UNCHANGED <<ingestVars, pipeVars, subVars, getVars, metVars>>

\* io.ReadAll succeeds: return data, nil
ReadAllOk ==
    /\ dlpc = "read"
    /\ plan[attempt].kind = "ok"
    /\ dlret' = [ok |-> TRUE, data |-> plan[attempt].data, wraps |-> NoErr,
                 attempts |-> 0]
    /\ dlpc' = "done"
    /\ UNCHANGED <<s3env, plan, maxAttempts, retryDelay, attempt, lastErr,
                   attemptsMade, slept>>
    /\ UNCHANGED <<ingestVars, pipeVars, subVars, getVars, metVars>>

DlNext ==
    \/ DlStart
    \/ GetObjectFails
    \/ GetObjectOk
    \/ ReadAllFails
    \/ ReadAllOk

(***************************************************************************)
(* Subscription loops (subscriber.StartSubscribers / startSubscriber)      *)
(***************************************************************************)
CorrectionsCompleteChannel == "corrections_complete"

\* StartSubscribers: one loop per channel
Channels ==
    {TranscribeCompleteChannel, SummaryCompleteChannel, CorrectionsCompleteChannel}

\* msg.Payload values: empty, blank, a job id
Payloads == { <<>>, <<" ">>, J1 }

\* time.Sleep(5 * time.Second)
ReceiveBackoffSeconds == 5

SubInit ==
    /\ subpc = [ch \in Channels |-> "receive"]
    /\ inbox = [ch \in Channels |-> <<>>]
    /\ received = [ch \in Channels |-> <<>>]
    /\ dispatched = [ch \in Channels |-> <<>>]
    /\ jobs = [ch \in Channels |-> <<>>]
    /\ subSlept = [ch \in Channels |-> <<>>]
    /\ npublished = 0
    /\ nerrors = 0

SubIdle ==
    /\ subpc = [ch \in Channels |-> "returned"]
    /\ inbox = [ch \in Channels |-> <<>>]
    /\ received = [ch \in Channels |-> <<>>]
    /\ dispatched = [ch \in Channels |-> <<>>]
    /\ jobs = [ch \in Channels |-> <<>>]
    /\ subSlept = [ch \in Channels |-> <<>>]
    /\ npublished = MaxPublished
    /\ nerrors = MaxReceiveErrors

\* a client publishes a message on a channel
Publish(ch) ==
    /\ npublished < MaxPublished
    /\ \E p \in Payloads : inbox' = [inbox EXCEPT ![ch] = Append(@, p)]
    /\ npublished' = npublished + 1
    /\ UNCHANGED <<subpc, received, dispatched, jobs, subSlept, nerrors>>
    /\ UNCHANGED <<ingestVars, pipeVars, dlVars, getVars, metVars>>

ReceiveMessageSkipsEmpty(ch) ==
    /\ subpc[ch] = "receive"
    /\ inbox[ch] # <<>>
    /\ LET p == Head(inbox[ch])
       IN /\ inbox' = [inbox EXCEPT ![ch] = Tail(@)]
          /\ received' = [received EXCEPT ![ch] = Append(@, p)]
          /\ IF TrimSpace(p) = <<>>
             THEN UNCHANGED <<subpc, dispatched, jobs>>
             ELSE /\ dispatched' = [dispatched EXCEPT ![ch] = Append(@, p)]
                  /\ jobs' = [jobs EXCEPT ![ch] = Append(@, "running")]
                  /\ UNCHANGED subpc
    /\ UNCHANGED <<subSlept, npublished, nerrors>>
    /\ UNCHANGED <<ingestVars, pipeVars, dlVars, getVars, metVars>>

ReceiveMessageAwaitsJob(ch) ==
    /\ subpc[ch] = "receive"
    /\ inbox[ch] # <<>>
    /\ \A i \in 1..Len(jobs[ch]) : jobs[ch][i] = "finished"
    /\ LET p == Head(inbox[ch])
       IN /\ inbox' = [inbox EXCEPT ![ch] = Tail(@)]
          /\ received' = [received EXCEPT ![ch] = Append(@, p)]
          /\ IF TrimSpace(p) = <<>>
             THEN /\ subpc' = [subpc EXCEPT ![ch] = "returned"]
                  /\ UNCHANGED <<dispatched, jobs>>
             ELSE /\ dispatched' = [dispatched EXCEPT ![ch] = Append(@, p)]
                  /\ jobs' = [jobs EXCEPT ![ch] = Append(@, "running")]
                  /\ UNCHANGED subpc
    /\ UNCHANGED <<subSlept, npublished, nerrors>>
    /\ UNCHANGED <<ingestVars, pipeVars, dlVars, getVars, metVars>>

\* one iteration of the loop in which pubSub.ReceiveMessage returns a
\* message: a payload that is blank after TrimSpace makes startSubscriber
\* return (the deferred pubSub.Close runs); any other payload is handed to
\* a new goroutine and the loop receives again
ReceiveMessage(ch) ==
    /\ subpc[ch] = "receive"
    /\ inbox[ch] # <<>>
    /\ LET p == Head(inbox[ch])
       IN /\ inbox' = [inbox EXCEPT ![ch] = Tail(@)]
          /\ received' = [received EXCEPT ![ch] = Append(@, p)]
          /\ IF TrimSpace(p) = <<>>
             THEN /\ subpc' = [subpc EXCEPT ![ch] = "returned"]
                  /\ UNCHANGED <<dispatched, jobs>>
             ELSE /\ dispatched' = [dispatched EXCEPT ![ch] = Append(@, p)]
                  /\ jobs' = [jobs EXCEPT ![ch] = Append(@, "running")]
                  /\ UNCHANGED subpc
    /\ UNCHANGED <<subSlept, npublished, nerrors>>
    /\ UNCHANGED <<ingestVars, pipeVars, dlVars, getVars, metVars>>

ReceiveErrorEndsLoop(ch) ==
    /\ subpc[ch] = "receive"
    /\ nerrors < MaxReceiveErrors
    /\ nerrors' = nerrors + 1
    /\ subpc' = [subpc EXCEPT ![ch] = "returned"]
    /\ UNCHANGED <<inbox, received, dispatched, jobs, subSlept, npublished>>
    /\ UNCHANGED <<ingestVars, pipeVars, dlVars, getVars, metVars>>

\* pubSub.ReceiveMessage returns an error: the loop logs it and sleeps
ReceiveError(ch) ==
    /\ subpc[ch] = "receive"
    /\ nerrors < MaxReceiveErrors
    /\ nerrors' = nerrors + 1
    /\ subpc' = [subpc EXCEPT ![ch] = "backoff"]
    /\ subSlept' = [subSlept EXCEPT ![ch] = Append(@, ReceiveBackoffSeconds)]
    /\ UNCHANGED <<inbox, received, dispatched, jobs, npublished>>
    /\ UNCHANGED <<ingestVars, pipeVars, dlVars, getVars, metVars>>

\* time.Sleep returns; continue
BackoffDone(ch) ==
    /\ subpc[ch] = "backoff"
    /\ subpc' = [subpc EXCEPT ![ch] = "receive"]
    /\ UNCHANGED <<inbox, received, dispatched, jobs, subSlept, npublished, nerrors>>
    /\ UNCHANGED <<ingestVars, pipeVars, dlVars, getVars, metVars>>

\* a dispatched processor goroutine returns, after any time
JobReturns(ch) ==
    /\ \E i \in 1..Len(jobs[ch]) :
          /\ jobs[ch][i] = "running"
          /\ jobs' = [jobs EXCEPT ![ch][i] = "finished"]
    /\ UNCHANGED <<subpc, inbox, received, dispatched, subSlept, npublished, nerrors>>
    /\ UNCHANGED <<ingestVars, pipeVars, dlVars, getVars, metVars>>

SubNext ==
    \/ \E ch \in Channels : Publish(ch)
    \/ \E ch \in Channels : ReceiveMessage(ch)
    \/ \E ch \in Channels : ReceiveError(ch)
    \/ \E ch \in Channels : BackoffDone(ch)
    \/ \E ch \in Channels : JobReturns(ch)

IngestIdle ==
    /\ db = NoRows
    /\ events_seq = 0
    /\ pend = [p \in Procs |-> NoRows]
    /\ req = [p \in Procs |-> CHOOSE r \in Requests : r.PromptId = "p2"]
    /\ pc = [p \in Procs |-> "done"]
    /\ idx = [p \in Procs |-> 1]
    /\ rowsEv = [p \in Procs |-> -1]
    /\ eventID = [p \in Procs |-> 0]
    /\ ret = [p \in Procs |-> [id |-> 0, err |-> FALSE]]
    /\ counters = [ingest |-> 0, dedupEvents |-> 0, dedupWords |-> 0, failures |-> 0]
    /\ updates = MaxUpdates
    /\ lastUpdate = [old |-> NoEvent, new |-> NoEvent, outcome |-> "none"]
    /\ incs = [p \in Procs |-> NoIncrements]
    /\ fault = [p \in Procs |-> FALSE]
    /\ lastInsert = NoInsert

PipeIdle ==
    /\ tables = [t \in TableNames |-> {}]
    /\ table_seq = [t \in TableNames |-> 0]
    /\ objects = [k \in ObjKeys |-> <<>>]
    /\ clock = 1
    /\ msg = [w \in Deliveries |-> BareMsg(SummaryCompleteChannel, J1)]
    /\ wpc = [w \in Deliveries |-> "done"]
    /\ payload = [w \in Deliveries |-> NoPayload]
    /\ refText = [w \in Deliveries |-> <<>>]
    /\ hypText = [w \in Deliveries |-> <<>>]
    /\ result = [w \in Deliveries |-> NoResult]
    /\ lastStored = [t \in TableNames |-> <<>>]
    /\ uploads = MaxUploads
    /\ calls = [w \in Deliveries |-> <<>>]
    /\ analysisErr = [w \in Deliveries |-> NoError]

GetIdle == get = GetOff

MetIdle ==
    /\ texts = [reference |-> <<>>, hypothesis |-> <<>>]
    /\ scores = AllCalled

InitIngest ==
    /\ IngestInit
    /\ PipeIdle
    /\ DlIdle
    /\ SubIdle
    /\ GetIdle
    /\ MetIdle

SpecIngest == InitIngest /\ [][IngestNext]_vars

InitRetrieve ==
    /\ IngestInit
    /\ GetInit
    /\ PipeIdle
    /\ DlIdle
    /\ SubIdle
    /\ MetIdle

SpecRetrieve == InitRetrieve /\ [][RetrieveNext]_vars

InitMetrics ==
    /\ MetInit
    /\ IngestIdle
    /\ PipeIdle
    /\ DlIdle
    /\ SubIdle
    /\ GetIdle

SpecMetrics == InitMetrics /\ [][MetNext]_vars

InitPipeline ==
    /\ PipeInit
    /\ IngestIdle
    /\ DlIdle
    /\ SubIdle
    /\ GetIdle
    /\ MetIdle

SpecPipeline == InitPipeline /\ [][PipeNext]_vars

InitDownload ==
    /\ DlInit
    /\ IngestIdle
    /\ PipeIdle
    /\ SubIdle
    /\ GetIdle
    /\ MetIdle

SpecDownload == InitDownload /\ [][DlNext]_vars

InitSubscriber ==
    /\ SubInit
    /\ IngestIdle
    /\ PipeIdle
    /\ DlIdle
    /\ GetIdle
    /\ MetIdle

SpecSubscriber == InitSubscriber /\ [][SubNext]_vars

\* each loop is a goroutine of its own that keeps running: ReceiveMessage
\* returns when a message is pending and time.Sleep returns
SpecSubscriberFair ==
    /\ SpecSubscriber
    /\ \A ch \in Channels : WF_vars(ReceiveMessage(ch)) /\ WF_vars(BackoffDone(ch))

\* every blocking call of DownloadS3Object (GetObject, ReadAll, time.Sleep)
\* returns, so a started download keeps taking steps
SpecDownloadFair == SpecDownload /\ WF_vars(DlNext)
(***************************************************************************)
(* Properties of correction-event ingestion                                *)
(***************************************************************************)
Range(s) == {s[i] : i \in 1..Len(s)}

SamePrompt(P) == {p \in Procs : req[p].PromptId = P}
Succeeded(p) == pc[p] = "done" /\ ~ret[p].err
Failed(p) == pc[p] = "done" /\ ret[p].err
\* the committed event row was inserted by call p
Persisted(p) == \E e \in db.events : e.by = p
\* the event insert of call p affected no row
TookDedup(p) == rowsEv[p] = 0
\* committed rows written by call p
RowsOf(p) ==
    {e \in db.events : e.by = p} \cup {x \in db.explanations : x.by = p}
    \cup {x \in db.words : x.by = p} \cup {x \in db.sentences : x.by = p}
WordPairs(r) == {<<w.before, w.after>> : w \in Range(r.Words)}

\* C1: IngestCorrectionEvent is all-or-nothing. A call that returned an error
\* has none of its rows committed, and a call with any committed row has
\* returned success with its whole correction set committed: the event row
\* if its insert affected a row, one explanation row and one sentence row per
\* payload entry, and a word row for every (before, after) pair.
C1_AllOrNothing ==
    \A p \in Procs :
        /\ Failed(p) => RowsOf(p) = {}
        /\ RowsOf(p) # {} =>
              /\ Succeeded(p)
              /\ rowsEv[p] = 1 => Persisted(p)
              /\ Cardinality({x \in db.explanations : x.by = p})
                    = Len(req[p].Explanations)
              /\ Cardinality({x \in db.sentences : x.by = p})
                    = Len(req[p].Sentences)
              /\ \A w \in Range(req[p].Words) :
                    WordConflict(db.words, ret[p].id, w)

\* a call inserted the event row and child rows, then failed and rolled back,
\* while another call committed
C1_Witness ==
    \E p, q \in Procs :
        /\ Failed(p) /\ rowsEv[p] = 1 /\ counters.failures > 0
        /\ Succeeded(q) /\ RowsOf(q) # {}

\* C2 as stated: once N >= 2 calls sharing a prompt id have all returned,
\* exactly one of them persisted the event row, each of the others took the
\* dedup no-op path, and the successful ones returned the same event id.
C2_ExactlyOnePersistsOthersDedup ==
    \A P \in PromptIds :
        LET S == SamePrompt(P)
        IN (Cardinality(S) >= 2 /\ \A p \in S : pc[p] = "done") =>
              /\ Cardinality({p \in S : Persisted(p)}) = 1
              /\ \A p \in S : ~Persisted(p) => TookDedup(p)
              /\ \A p, q \in S :
                    Succeeded(p) /\ Succeeded(q) => ret[p].id = ret[q].id

\* C2 amended: among the calls sharing a prompt id at most one persists the
\* event row, exactly one as soon as one of them has succeeded; every other
\* successful call took the dedup no-op path; all successful calls return the
\* same event id, the id of the persisted row.
C2_OnePersistsSuccessfulOthersDedup ==
    \A P \in PromptIds :
        LET S == SamePrompt(P)
        IN /\ Cardinality({p \in S : Persisted(p)}) <= 1
           /\ Cardinality({e \in db.events : e.prompt_id = P}) <= 1
           /\ (\E p \in S : Succeeded(p)) =>
                  Cardinality({p \in S : Persisted(p)}) = 1
           /\ \A p \in S : Succeeded(p) /\ ~Persisted(p) => TookDedup(p)
           /\ \A p \in S : Succeeded(p) =>
                  \E e \in db.events : e.prompt_id = P /\ e.id = ret[p].id
           /\ \A p, q \in S :
                  Succeeded(p) /\ Succeeded(q) => ret[p].id = ret[q].id

\* two calls sharing a prompt id both succeeded, one through the insert and
\* one through the dedup path
C2_Witness ==
    \E p, q \in Procs :
        /\ p # q /\ req[p].PromptId = req[q].PromptId
        /\ Succeeded(p) /\ Succeeded(q)
        /\ Persisted(p) /\ rowsEv[p] = 1 /\ TookDedup(q)

\* p and q are the only successful ingestions of their prompt id and carry
\* the same payload
TwiceIngested(p, q) ==
    /\ p # q /\ req[p] = req[q]
    /\ Succeeded(p) /\ Succeeded(q)
    /\ \A r \in Procs \ {p, q} :
          req[r].PromptId = req[p].PromptId => pc[r] = "begin"
    /\ \A x \in db.words : x.event_id = ret[p].id => x.by \in Procs

\* C3: ingesting an identical payload twice returns the same event id both
\* times; the event then has twice the payload's explanation rows and twice
\* its sentence rows, and exactly one word row per distinct (before, after)
\* pair of the payload.
C3_IdenticalPayloadTwice ==
    \A p, q \in Procs :
        TwiceIngested(p, q) =>
            LET id == ret[p].id
                r == req[p]
            IN /\ ret[q].id = id
               /\ Cardinality({x \in db.explanations : x.event_id = id})
                     = 2 * Len(r.Explanations)
               /\ Cardinality({x \in db.sentences : x.event_id = id})
                     = 2 * Len(r.Sentences)
               /\ Cardinality({x \in db.words : x.event_id = id})
                     = Cardinality(WordPairs(r))
               /\ \A pr \in WordPairs(r) :
                     Cardinality({x \in db.words : x.event_id = id
                                    /\ <<x.before, x.after>> = pr}) = 1

\* a payload with an explanation, a sentence and a repeated word pair was
\* ingested twice
C3_Witness ==
    \E p, q \in Procs :
        /\ TwiceIngested(p, q)
        /\ Len(req[p].Explanations) > 0 /\ Len(req[p].Sentences) > 0
        /\ Cardinality(WordPairs(req[p])) < Len(req[p].Words)
        /\ counters.dedupWords >= 3

\* C4: a stored event's prompt id never changes. Every committed event row
\* keeps its id and prompt id in every step, whatever runs concurrently; an
\* UPDATE that would change the prompt id is rejected and leaves the table
\* unchanged; an UPDATE that keeps the prompt id is not rejected.
C4_PromptIdImmutable ==
    [][ /\ \A e \in db.events :
              \E f \in db'.events : f.id = e.id /\ f.prompt_id = e.prompt_id
        /\ (updates' # updates /\ lastInsert' = lastInsert) =>
              /\ lastUpdate'.new.prompt_id # lastUpdate'.old.prompt_id =>
                    lastUpdate'.outcome = "rejected" /\ db' = db
              /\ lastUpdate'.new.prompt_id = lastUpdate'.old.prompt_id =>
                    /\ lastUpdate'.outcome = "updated"
                    /\ lastUpdate'.new \in db'.events
                    /\ lastUpdate'.old \notin db'.events ]_vars

\* an UPDATE of the prompt id was rejected while an ingestion transaction
\* was open
C4_Witness ==
    /\ lastUpdate.outcome = "rejected"
    /\ lastUpdate.old \in db.events
    /\ \E p \in Procs : pend[p] # NoRows

UniquePrompt ==
    \A e, f \in db.events : e.prompt_id = f.prompt_id => e = f

\* C5: first writer wins. No two committed events share a prompt id; no
\* ingestion step removes or changes a committed event row; an event insert
\* whose prompt id is already stored is a no-op (no row affected, nothing
\* written, the call goes on to resolve the id); and the call that took
\* this path can return success with the id of the first writer's row.
C5_FirstWriterWins ==
    /\ []UniquePrompt
    /\ [](\A p \in Procs : Succeeded(p) /\ TookDedup(p) =>
             \E e \in db.events :
                 e.prompt_id = req[p].PromptId /\ e.id = ret[p].id /\ e.by # p)
    /\ [][ /\ (\E p \in Procs : pc'[p] # pc[p]) => db.events \subseteq db'.events
           /\ \A p \in Procs :
                 (/\ pc[p] = "insEvent" /\ pc'[p] = "selId"
                  /\ EventConflict(db.events, req[p].PromptId)) =>
                     /\ rowsEv'[p] = 0
                     /\ db' = db /\ pend' = pend
                     /\ ~ret'[p].err ]_vars

\* a call with another job id, model id, source and version than the stored
\* event of its prompt id returned success through the no-op path
C5_Witness ==
    \E p \in Procs : \E e \in db.events :
        /\ Succeeded(p) /\ TookDedup(p)
        /\ e.prompt_id = req[p].PromptId /\ e.id = ret[p].id
        /\ e.job_id # req[p].JobId /\ e.model_id # req[p].ModelId
        /\ e.source # req[p].Source /\ e.version # req[p].Version

(***************************************************************************)
(* Properties of the result store and the completion-event workers         *)
(***************************************************************************)
RowsFor(t, k) == {x \in tables[t] : x.file_name = k}
StoredBy(w) == wpc[w] = "stored"
SameMetrics(x, r) == x.wer = r.WER /\ x.cer = r.CER /\ x.bleu = r.BLEU

\* C6: each result table holds exactly one row per stored job identifier
\* (file_name), and that row carries the wer, cer, bleu and updated
\* timestamp of the write applied last; no other row exists.
C6_OneRowLastWriteWins ==
    \A t \in TableNames :
        /\ \A x \in tables[t] : x.file_name \in DOMAIN lastStored[t]
        /\ \A k \in DOMAIN lastStored[t] :
              /\ Cardinality(RowsFor(t, k)) = 1
              /\ \A x \in RowsFor(t, k) :
                    /\ SameMetrics(x, lastStored[t][k])
                    /\ x.updated_at = lastStored[t][k].Timestamp

\* two deliveries wrote different metrics to the same row, and the row was
\* updated in place
C6_Witness ==
    \E w, v \in Deliveries :
        /\ w # v /\ StoredBy(w) /\ StoredBy(v)
        /\ msg[w].chan = msg[v].chan
        /\ result[w].FileName = result[v].FileName
        /\ result[w].WER # result[v].WER
        /\ \E x \in RowsFor(TableOf(msg[w].chan), result[w].FileName) :
              x.updated_at # x.created_at /\ x.wer = result[v].WER

\* every delivery that wrote the row of w carried the same event as w, and
\* no object was replaced
OnlyRedeliveries(w) ==
    /\ StoredBy(w)
    /\ uploads = 0
    /\ \A v \in Deliveries :
          (/\ StoredBy(v) /\ msg[v].chan = msg[w].chan
           /\ result[v].FileName = result[w].FileName) => msg[v] = msg[w]

\* C7: when one completion event is delivered k >= 1 times and the objects
\* do not change, the table holds a single row for it whose wer, cer and
\* bleu are those computed by each of the deliveries, whatever their number
\* and interleaving.
C7_RedeliveryEffectivelyOnce ==
    \A w \in Deliveries :
        OnlyRedeliveries(w) =>
            LET rows == RowsFor(TableOf(msg[w].chan), result[w].FileName)
            IN /\ Cardinality(rows) = 1
               /\ \A x \in rows : SameMetrics(x, result[w])

\* the same event was delivered twice and both deliveries stored a result
C7_Witness ==
    \E w, v \in Deliveries :
        /\ w # v /\ msg[w] = msg[v]
        /\ OnlyRedeliveries(w) /\ OnlyRedeliveries(v)
        /\ table_seq[TableOf(msg[w].chan)] >= 2

\* C8: after an event carrying job J has been processed and its result
\* stored, the table of its channel holds a row whose file_name is J, so
\* that retrieval by J finds it.
C8_RowKeyedByEventJob ==
    \A w \in Deliveries :
        StoredBy(w) => RowsFor(TableOf(msg[w].chan), Str(payload[w].Job)) # {}

(***************************************************************************)
(* Properties of the retrying object fetcher                               *)
(***************************************************************************)
\* attempt k is the first one the object store answers with the bytes
FirstOk(k) == plan[k].kind = "ok" /\ \A i \in 1..(k - 1) : plan[i].kind # "ok"

\* C9: if attempts 1..k-1 fail and attempt k succeeds with k <= maxAttempts,
\* DownloadS3Object returns the bytes of attempt k without error after
\* exactly k attempts.
C9_StopsAtFirstSuccess ==
    dlpc = "done" =>
        \A k \in 1..MaxPlan :
            (FirstOk(k) /\ k <= maxAttempts) =>
                /\ dlret.ok
                /\ dlret.data = plan[k].data
                /\ attemptsMade = k

\* a GetObject failure, then a ReadAll failure, then success on the third
\* and last attempt
C9_Witness ==
    /\ dlpc = "done" /\ dlret.ok /\ maxAttempts = 3 /\ attemptsMade = 3
    /\ plan[1].kind = "getErr" /\ plan[2].kind = "readErr" /\ FirstOk(3)

AllFail == \A i \in 1..maxAttempts : plan[i].kind # "ok"

\* C10: maxAttempts >= 1 for every setting, 3 when the setting is unset,
\* unparsable or < 1; never more than maxAttempts attempts are made; when
\* all of them fail the returned error wraps the error of attempt
\* maxAttempts; and every download terminates.
C10_BoundedAttemptsLastError ==
    /\ [](dlpc # "idle" =>
            /\ maxAttempts >= 1
            /\ s3env.max \in { <<>>, <<"x">>, <<"2", "x">>, <<"0">>, <<"-", "1">> }
                  => maxAttempts = 3
            /\ s3env.max = <<"1">> => maxAttempts = 1
            /\ s3env.max = <<"2">> => maxAttempts = 2
            /\ s3env.max = <<"+", "3">> => maxAttempts = 3
            /\ s3env.max = <<"0", "4">> => maxAttempts = 4
            /\ s3env.max = <<"5">> => maxAttempts = 5
            /\ attemptsMade <= maxAttempts
            /\ (dlpc = "done" /\ AllFail) =>
                  /\ ~dlret.ok
                  /\ attemptsMade = maxAttempts
                  /\ dlret.attempts = maxAttempts
                  /\ dlret.wraps = [e |-> plan[maxAttempts].err, at |-> maxAttempts])
    /\ <>(dlpc = "done")

\* an unparsable setting gave three attempts, all failed, the last one with
\* another error than the first two
C10_Witness ==
    /\ dlpc = "done" /\ ~dlret.ok /\ s3env.max = <<"x">> /\ attemptsMade = 3
    /\ plan[1].err = "NotFound" /\ plan[2].err = "ReadFailed"
    /\ plan[3].err = "Transient" /\ dlret.wraps.e = "Transient"

(***************************************************************************)
(* Analysis orchestration (AnalyzeTranscripts / AnalyzeSummary)            *)
(***************************************************************************)
Made(w, what) == what \in Range(calls[w])
FetchFailed(w) == analysisErr[w] \in {DownloadOriginalError, DownloadHypothesisError}

\* C11: the reference is fetched before the hypothesis; when the reference
\* fetch fails the hypothesis is never fetched; when either fetch fails the
\* job has returned with a download error, computeMetrics and the metric
\* functions were never invoked and there is no result.
C11_FetchIsPrecondition ==
    \A w \in Deliveries :
        /\ \A i \in 1..Len(calls[w]) :
              calls[w][i] = "downloadHypothesis" =>
                  \E j \in 1..(i - 1) : calls[w][j] = "downloadReference"
        /\ analysisErr[w] = DownloadOriginalError => ~Made(w, "downloadHypothesis")
        /\ (wpc[w] = "done" /\ calls[w] # <<>>
            /\ calls[w][Len(calls[w])] \in {"downloadReference", "downloadHypothesis"})
              => FetchFailed(w)
        /\ FetchFailed(w) =>
              /\ wpc[w] = "done"
              /\ ~Made(w, "computeMetrics") /\ ~Made(w, "Metrics")
              /\ ~Made(w, "storeAnalysisResult")
              /\ result[w] = NoResult

\* one job failed on its reference fetch, another on its hypothesis fetch
\* after the reference was fetched
C11_Witness ==
    \E w, v \in Deliveries :
        /\ analysisErr[w] = DownloadOriginalError
        /\ calls[w] = <<"Analyze", "downloadReference">>
        /\ analysisErr[v] = DownloadHypothesisError
        /\ calls[v] = <<"Analyze", "downloadReference", "downloadHypothesis">>

EmptyDocument(w) == refText[w] = <<>> \/ hypText[w] = <<>>

\* C12: when computeMetrics is reached with an empty reference or an empty
\* hypothesis, the job has returned with the compute-metrics (validation)
\* error, no metric function was invoked, there is no result and nothing
\* was stored; the metric functions are only ever invoked on a non-empty
\* reference and a non-empty hypothesis.
C12_EmptyDocumentRejected ==
    \A w \in Deliveries :
        /\ (Made(w, "computeMetrics") /\ EmptyDocument(w)) =>
              /\ analysisErr[w] = ComputeMetricsError
              /\ wpc[w] = "done"
              /\ ~Made(w, "Metrics")
              /\ ~Made(w, "storeAnalysisResult")
              /\ result[w] = NoResult
        /\ analysisErr[w] = ComputeMetricsError => EmptyDocument(w)
        /\ Made(w, "Metrics") => (refText[w] # <<>> /\ hypText[w] # <<>>)

\* one job was rejected for its empty reference and another, whose
\* reference is not empty, for its empty hypothesis
C12_Witness ==
    \E w, v \in Deliveries :
        /\ analysisErr[w] = ComputeMetricsError
        /\ refText[w] = <<>>
        /\ analysisErr[v] = ComputeMetricsError
        /\ refText[v] # <<>> /\ hypText[v] = <<>>

AnalysisFailed(w) == analysisErr[w] # NoError
AnalysisRuns(w) == Cardinality({i \in 1..Len(calls[w]) : calls[w][i] = "Analyze"})

\* C13: the step in which the analysis of a job fails (download or
\* compute-metrics error) ends the job's processing and leaves both result
\* tables as they were; a failed job makes no further call (no retry, no
\* store), so the rows stored before keep their values and timestamps; and
\* a delivered message starts at most one analysis run.
C13_FailedJobWritesNothing ==
    /\ [][\A w \in Deliveries :
            (~AnalysisFailed(w) /\ AnalysisFailed(w)') =>
                /\ tables' = tables
                /\ table_seq' = table_seq
                /\ wpc'[w] = "done"]_vars
    /\ [][\A w \in Deliveries :
            AnalysisFailed(w) =>
                /\ wpc'[w] = "done"
                /\ calls'[w] = calls[w]
                /\ analysisErr'[w] = analysisErr[w]]_vars
    /\ [](\A w \in Deliveries :
            /\ AnalysisRuns(w) <= 1
            /\ AnalysisFailed(w) =>
                  (wpc[w] = "done" /\ ~Made(w, "storeAnalysisResult")))

\* a delivery stored the row of a job, the analysis of another delivery of
\* the same event failed, and the row carries the stored values and
\* timestamp
C13_Witness ==
    \E v, w \in Deliveries :
        /\ StoredBy(v) /\ AnalysisFailed(w) /\ msg[w] = msg[v]
        /\ \E x \in RowsFor(TableOf(msg[v].chan), result[v].FileName) :
              /\ SameMetrics(x, result[v])
              /\ x.updated_at = result[v].Timestamp

\* C14: for a transcription-complete event, the text passed to the metrics
\* as reference is the content of the event's corrected file (File2) and
\* the text passed as hypothesis is the content of its transcribed file
\* (File1).
C14_ReferenceIsCorrectedFile ==
    [][\A w \in Deliveries :
          msg[w].chan = TranscribeCompleteChannel =>
              /\ (wpc[w] = "fetchRef" /\ wpc'[w] = "fetchHyp") =>
                    refText'[w] = objects[payload[w].File2]
              /\ (wpc[w] = "fetchHyp" /\ wpc'[w] = "compute") =>
                    hypText'[w] = objects[payload[w].File1]]_vars

(***************************************************************************)
(* Legacy payload tiers                                                    *)
(***************************************************************************)
\* the payload HandleTriggerTranscriptionAnalysis / HandleTriggerSummaryAnalysis
\* publish for a job; its keys are those HandleTranscriptionUpload /
\* HandleSummaryUpload write
TriggerPayload(ch, job) ==
    IF ch = TranscribeCompleteChannel
    THEN [Job |-> job, Bucket |-> "medsum-data",
          File1 |-> JobKey(job, "_transcribed.txt"),
          File2 |-> JobKey(job, "_corrected.txt"), ok |-> TRUE]
    ELSE [Job |-> job, Bucket |-> "medsum-data",
          File1 |-> JobKey(job, "_original.txt"),
          File2 |-> JobKey(job, "_summary.txt"), ok |-> TRUE]

DecodeOn(ch, m) ==
    IF ch = TranscribeCompleteChannel THEN DecodeTranscription(m) ELSE DecodeSummary(m)

OtherTier(m) ==
    IF m.shape = "quoted" THEN BareMsg(m.chan, m.job) ELSE QuotedMsg(m.chan, m.job)

\* C18: a payload decoded from a quoted string or from a bare job id is the
\* payload the other legacy tier yields for the same job id on the same
\* channel, and it is the payload (job, bucket, keys) the trigger handler
\* builds for that job.
C18_LegacyTiersAgree ==
    \A w \in Deliveries :
        (wpc[w] # "decode" /\ msg[w].shape \in {"quoted", "bare"} /\ payload[w].ok) =>
            /\ payload[w] = DecodeOn(msg[w].chan, OtherTier(msg[w]))
            /\ payload[w] = TriggerPayload(msg[w].chan, payload[w].Job)

(***************************************************************************)
(* Subscription loops                                                      *)
(***************************************************************************)
Blank(p) == TrimSpace(p) = <<>>
ReceivedBlank(ch) == \E i \in 1..Len(received[ch]) : Blank(received[ch][i])
Running(ch) == {i \in 1..Len(jobs[ch]) : jobs[ch][i] = "running"}
PublishedCounts == 0..(MaxPublished + 1)

NonBlank(p) == ~Blank(p)

\* C15: a subscription loop has returned exactly when it received a payload
\* that is blank after trimming; a returned loop stays returned and
\* receives and dispatches nothing more, whatever is published on its
\* channel; a returning loop leaves the loops of the other channels where
\* they are, and every loop that received no blank payload goes on to
\* receive all the messages of its channel and to dispatch the non-blank
\* ones.
C15_EmptyPayloadEndsLoop ==
    /\ [](\A ch \in Channels :
            /\ subpc[ch] = "returned" <=> ReceivedBlank(ch)
            /\ ReceivedBlank(ch) => Blank(received[ch][Len(received[ch])])
            /\ dispatched[ch] = SelectSeq(received[ch], NonBlank))
    /\ [][\A ch \in Channels :
            subpc[ch] = "returned" =>
                /\ subpc'[ch] = "returned"
                /\ received'[ch] = received[ch]
                /\ dispatched'[ch] = dispatched[ch]]_vars
    /\ [][\A ch \in Channels :
            (subpc[ch] # "returned" /\ subpc'[ch] = "returned") =>
                \A other \in Channels \ {ch} :
                    /\ subpc'[other] = subpc[other]
                    /\ inbox'[other] = inbox[other]]_vars
    /\ \A ch \in Channels : <>[](ReceivedBlank(ch) \/ inbox[ch] = <<>>)

\* the transcription loop returned on a blank payload and left a later
\* message of its channel undispatched, while the summary loop dispatched a
\* message
C15_Witness ==
    /\ subpc[TranscribeCompleteChannel] = "returned"
    /\ received[TranscribeCompleteChannel] = << <<" ">> >>
    /\ inbox[TranscribeCompleteChannel] = <<J1>>
    /\ dispatched[TranscribeCompleteChannel] = <<>>
    /\ subpc[SummaryCompleteChannel] = "receive"
    /\ dispatched[SummaryCompleteChannel] = <<J1>>

\* C16: a loop that is at ReceiveMessage with a message pending can receive
\* and dispatch it whatever the state of the goroutines it started before;
\* the step that dispatches a message leaves the loop at ReceiveMessage
\* with the new goroutine running, and changes no other goroutine.
C16_DispatchIsAsynchronous ==
    /\ [](\A ch \in Channels :
            (subpc[ch] = "receive" /\ inbox[ch] # <<>>) => ENABLED ReceiveMessage(ch))
    /\ [][\A ch \in Channels :
            Len(dispatched'[ch]) > Len(dispatched[ch]) =>
                /\ subpc'[ch] = "receive"
                /\ Len(jobs'[ch]) = Len(jobs[ch]) + 1
                /\ jobs'[ch][Len(jobs'[ch])] = "running"
                /\ \A i \in 1..Len(jobs[ch]) : jobs'[ch][i] = jobs[ch][i]]_vars

\* every published message was dispatched on one channel and all the
\* goroutines are still running, with the loop receiving again
C16_Witness ==
    \E ch \in Channels :
        /\ Len(dispatched[ch]) = MaxPublished
        /\ Running(ch) = 1..MaxPublished
        /\ subpc[ch] = "receive"

\* C17: the step in which ReceiveMessage returns an error puts the loop
\* into a sleep of 5 seconds and never ends it; the loop leaves the sleep
\* only to be at ReceiveMessage again, and it always leaves it; and a loop
\* that had receive errors still receives every message of its channel
\* (until a blank one) and dispatches the non-blank ones.
C17_ReceiveErrorNeverEndsLoop ==
    /\ [][\A ch \in Channels :
            (nerrors' > nerrors /\ subpc[ch] # subpc'[ch]) =>
                /\ subpc'[ch] = "backoff"
                /\ subSlept'[ch] = Append(subSlept[ch], 5)
                /\ inbox'[ch] = inbox[ch]]_vars
    /\ [][\A ch \in Channels :
            (subpc[ch] = "backoff" /\ subpc'[ch] # "backoff") =>
                subpc'[ch] = "receive"]_vars
    /\ [](\A ch \in Channels :
            /\ \A i \in 1..Len(subSlept[ch]) : subSlept[ch][i] = 5
            /\ subpc[ch] = "returned" => ReceivedBlank(ch)
            /\ \A i \in 1..Len(received[ch]) :
                  NonBlank(received[ch][i]) => i <= Len(dispatched[ch]))
    /\ \A ch \in Channels : []<>(subpc[ch] # "backoff")
    /\ \A ch \in Channels :
          <>[](subSlept[ch] # <<>> => (ReceivedBlank(ch) \/ inbox[ch] = <<>>))

\* after two receive errors on a channel, a message published afterwards
\* was dispatched
C17_Witness ==
    \E ch \in Channels :
        /\ subSlept[ch] = <<5, 5>>
        /\ nerrors = 2
        /\ dispatched[ch] = <<J1>>
        /\ received[ch] = <<J1>>

(***************************************************************************)
(* Observability counters                                                  *)
(***************************************************************************)
AllCallsReturned == \A p \in Procs : pc[p] = "done"

\* C19: once the ingestions have returned, ingest-total equals the number
\* of correction-event rows they persisted, and a call whose event insert
\* counted as new (the call that incremented ingest-total) persisted its
\* event row.
C19_IngestTotalCountsPersisted ==
    /\ AllCallsReturned => counters.ingest = Cardinality(db.events)
    /\ \A p \in Procs : (pc[p] = "done" /\ rowsEv[p] = 1) => Persisted(p)

\* C20: failures-total equals the number of IngestCorrectionEvent calls
\* that have returned an error.
C20_FailuresCountsEveryError ==
    counters.failures = Cardinality({p \in Procs : Failed(p)})

(***************************************************************************)
(* Conflict no-ops and counters                                            *)
(***************************************************************************)
WordRowsBy(p) == {x \in db.words : x.by = p}

\* C21: a call that returned without a database error returned success,
\* also when its event insert or word inserts were no-ops; a successful
\* call returns the id of the committed event of its prompt id, made no
\* increment of failures-total, incremented dedup-events once exactly when
\* its event insert affected no row (and ingest-total once otherwise), and
\* incremented dedup-words once for each of its words that did not become
\* a row.
C21_ConflictNoopIsSuccess ==
    \A p \in Procs :
        /\ (pc[p] = "done" /\ ~fault[p]) => Succeeded(p)
        /\ Succeeded(p) =>
              /\ \E e \in db.events :
                    e.prompt_id = req[p].PromptId /\ e.id = ret[p].id
              /\ incs[p].failures = 0
              /\ incs[p].dedupEvents = (IF rowsEv[p] = 0 THEN 1 ELSE 0)
              /\ incs[p].ingest = (IF rowsEv[p] = 0 THEN 0 ELSE 1)
              /\ incs[p].dedupWords = Len(req[p].Words) - Cardinality(WordRowsBy(p))

\* a call whose event insert and both word inserts were no-ops succeeded,
\* after a call that inserted the event and met the pair repeated in its
\* own request; failures-total is 0
C21_Witness ==
    \E p, q \in Procs :
        /\ p # q /\ Succeeded(p) /\ Succeeded(q)
        /\ rowsEv[q] = 1 /\ incs[q].dedupWords = 1
        /\ rowsEv[p] = 0 /\ incs[p].dedupWords = 2 /\ incs[p].dedupEvents = 1
        /\ ret[p].id = ret[q].id
        /\ counters.failures = 0

CounterNames == {"ingest", "dedupEvents", "dedupWords", "failures"}

RECURSIVE IncrementsOf(_, _)
IncrementsOf(P, c) ==
    IF P = {} THEN 0
    ELSE LET p == CHOOSE x \in P : TRUE
         IN incs[p][c] + IncrementsOf(P \ {p}, c)

\* C22: no step decreases a counter, and in every state reached by any
\* interleaving of the calls each counter equals the sum of the increments
\* the individual calls made to it.
C22_CountersLoseNoUpdate ==
    /\ [][\A c \in CounterNames : counters'[c] >= counters[c]]_vars
    /\ [](\A c \in CounterNames : counters[c] = IncrementsOf(Procs, c))

\* all the calls returned, each of them incremented dedup-words and one of
\* ingest-total and dedup-events
C22_Witness ==
    /\ AllCallsReturned
    /\ \A p \in Procs : incs[p].dedupWords >= 1
    /\ counters.dedupWords >= 2
    /\ counters.ingest + counters.dedupEvents = NumCalls

(***************************************************************************)
(* Concurrent ingestions of distinct prompt ids                            *)
(***************************************************************************)
AloneOnPrompt(p) == \A q \in Procs \ {p} : req[q].PromptId # req[p].PromptId
EventRowsBy(p) == {e \in db.events : e.by = p}

\* C23: a call whose prompt id no other call carries never takes the dedup
\* path, never waits on another call (its event insert and its word
\* inserts can always be executed), always finds its event id, fails only
\* on a database error of one of its own statements and otherwise returns
\* success with its own event row persisted; the event ids returned by two
\* such calls differ.
C23_DistinctPromptsRunInParallel ==
    /\ \A p \in Procs :
          AloneOnPrompt(p) =>
              /\ rowsEv[p] # 0 /\ incs[p].dedupEvents = 0
              /\ pc[p] = "insEvent" => ENABLED InsertEvent(p)
              /\ pc[p] = "words" => ENABLED InsertWord(p)
              /\ pc[p] = "selId" =>
                    ResolveEventId(Visible(p).events, req[p].PromptId) # {}
              /\ Failed(p) => fault[p]
              /\ (pc[p] = "done" /\ ~fault[p]) =>
                    /\ Succeeded(p)
                    /\ Cardinality(EventRowsBy(p)) = 1
                    /\ \A e \in EventRowsBy(p) :
                          e.id = ret[p].id /\ e.prompt_id = req[p].PromptId
    /\ \A p, q \in Procs :
          (p # q /\ AloneOnPrompt(p) /\ AloneOnPrompt(q)
           /\ Succeeded(p) /\ Succeeded(q)) => ret[p].id # ret[q].id

\* all the calls carry pairwise distinct prompt ids, all succeeded, and
\* there are as many event rows, with distinct ids, as calls
C23_Witness ==
    /\ \A p \in Procs : AloneOnPrompt(p) /\ Succeeded(p) /\ rowsEv[p] = 1
    /\ Cardinality(db.events) = NumCalls
    /\ Cardinality({e.id : e \in db.events}) = NumCalls

\* the step is a word insert of call p that did not fail
WordInsertStep(p) ==
    /\ pc[p] = "words"
    /\ pc'[p] # pc[p] \/ idx'[p] # idx[p]
    /\ ~fault'[p]

SamePair(x, y) ==
    x.event_id = y.event_id /\ x.before = y.before /\ x.after = y.after

\* the step is a direct INSERT INTO word_corrections
DirectInsertStep == updates' # updates /\ lastInsert' # lastInsert

\* C24: no two word-correction rows share (event, before, after). A word
\* insert of an ingestion that meets an existing row of its pair changes no
\* row, so the first row keeps its position and confidence: a call's row
\* carries the position and confidence of the first occurrence of the pair
\* in its payload, and a stored row is never changed or removed. A direct
\* insert of a pair that is already stored is rejected with a unique
\* violation and changes nothing; otherwise its row is added.
C24_WordPairUnique ==
    /\ [](\A p \in Procs : \A x, y \in Visible(p).words : SamePair(x, y) => x = y)
    /\ [](\A x \in db.words : x.by \in Procs =>
             LET ws == req[x.by].Words
             IN /\ x.position = ws[x.k].position
                /\ x.confidence = ws[x.k].confidence
                /\ \A j \in 1..(x.k - 1) :
                      <<ws[j].before, ws[j].after>> # <<x.before, x.after>>)
    /\ [][ /\ \A x \in db.words : x \in db'.words
           /\ \A p \in Procs :
                 (WordInsertStep(p)
                    /\ WordConflict(Visible(p).words, eventID[p], req[p].Words[idx[p]]))
                 => db' = db /\ pend' = pend
           /\ DirectInsertStep =>
                 IF WordConflict(db.words, lastInsert'.row.event_id, lastInsert'.row)
                 THEN lastInsert'.outcome = "unique_violation" /\ db' = db
                 ELSE /\ lastInsert'.outcome = "inserted"
                      /\ db'.words = db.words \cup {lastInsert'.row} ]_vars

\* a direct insert of the pair ("a", "b") at position 9 was rejected: the
\* event's row of that pair was written by a committed call whose payload
\* repeats the pair, and it carries the first occurrence's position
C24_Witness ==
    /\ lastInsert.outcome = "unique_violation"
    /\ lastInsert.row.position = 9
    /\ \E p \in Procs :
          /\ Succeeded(p)
          /\ Len(req[p].Words) = 2
          /\ req[p].Words[1].position = 1 /\ req[p].Words[2].position = 2
          /\ incs[p].dedupWords = 1
          /\ \E x \in db.words :
                /\ x.by = p /\ x.position = 1
                /\ SamePair(x, lastInsert.row)

\* the rows of the event with id stored in rows
StoredFor(rows, id) ==
    [explanations |-> RowsOfEvent(rows.explanations, id),
     words |-> RowsOfEvent(rows.words, id),
     sentences |-> RowsOfEvent(rows.sentences, id)]

Returned(f) == scores.called = {f}

\* the k-th smallest element of a set of numbers
Nth(S, k) == CHOOSE x \in S : Cardinality({y \in S : y < x}) = k - 1

\* An edit script keeps some positions A of s1, in order, as the positions
\* B of s2 (substituting where the tokens differ), deletes the other
\* positions of s1 and inserts the other positions of s2.
AlignmentCost(s1, s2, A, B) ==
    (Len(s1) - Cardinality(A)) + (Len(s2) - Cardinality(B))
       + Cardinality({k \in 1..Cardinality(A) : s1[Nth(A, k)] # s2[Nth(B, k)]})

\* the minimum number of insertions, deletions and substitutions that turn
\* s1 into s2
MinEdits(s1, s2) ==
    LET costs == {AlignmentCost(s1, s2, ab[1], ab[2]) :
                    ab \in {x \in (SUBSET (1..Len(s1))) \X (SUBSET (1..Len(s2))) :
                              Cardinality(x[1]) = Cardinality(x[2])}}
    IN CHOOSE c \in costs : \A d \in costs : c <= d

Abs(n) == IF n < 0 THEN 0 - n ELSE n
Larger(a, b) == IF a < b THEN b ELSE a

\* C26: levenshteinDistance(s1, s2) is the minimum number of unit-cost
\* insertions, deletions and substitutions turning s1 into s2 (compared
\* with the cheapest alignment for arguments of up to MaxAligned tokens);
\* it is 0 exactly when s1 = s2, it is the same in both directions, and it
\* lies between ||s1| - |s2|| and max(|s1|, |s2|).
C26_LevenshteinIsMinEdits ==
    Returned("levenshteinDistance") =>
        LET s1 == Tokens(texts.reference, scores.unit)
            s2 == Tokens(texts.hypothesis, scores.unit)
            d == scores.lev
        IN /\ (Len(s1) <= MaxAligned /\ Len(s2) <= MaxAligned) => d = MinEdits(s1, s2)
           /\ d = 0 <=> s1 = s2
           /\ d = levenshteinDistance(s2, s1)
           /\ Abs(Len(s1) - Len(s2)) <= d
           /\ d <= Larger(Len(s1), Len(s2))

\* a distance made of a substitution and a deletion, strictly between the
\* two bounds: three characters against two that share the first
C26_Witness ==
    /\ Returned("levenshteinDistance")
    /\ scores.unit = "chars"
    /\ LET s1 == Runes(texts.reference)
           s2 == Runes(texts.hypothesis)
       IN /\ Len(s1) = 3 /\ Len(s2) = 2
          /\ s1[1] = s2[1] /\ s1[2] # s2[2] /\ s1[3] # s2[2]
          /\ scores.lev = 2
          /\ MinEdits(s1, s2) = 2

WordsOf(ws) == Join([i \in 1..Len(ws) |-> <<ws[i]>>])

\* C27: ComputeWER is the word edit distance divided by the number of
\* reference words when the reference has a word: 0 for a text against
\* itself, 1/3 for "a b c" against "a b", above 1 when the distance exceeds
\* the reference length. With a reference without words it is 0 when the
\* hypothesis has no word and 1 otherwise, however long the hypothesis.
C27_WordErrorRate ==
    Returned("ComputeWER") =>
        LET refWords == Fields(texts.reference)
            hypWords == Fields(texts.hypothesis)
            d == levenshteinDistance(refWords, hypWords)
            w == scores.wer
        IN /\ Len(refWords) >= 1 =>
                /\ w = <<d, Len(refWords)>>
                /\ (Len(refWords) <= MaxAligned /\ Len(hypWords) <= MaxAligned)
                      => w[1] = MinEdits(refWords, hypWords)
                /\ texts.reference = texts.hypothesis => w[1] = 0
                /\ d > Len(refWords) => w[1] > w[2]
           /\ (texts.reference = WordsOf(<<"a", "b", "c">>)
                 /\ texts.hypothesis = WordsOf(<<"a", "b">>)) => w = <<1, 3>>
           /\ Len(refWords) = 0 => w = (IF Len(hypWords) = 0 THEN <<0, 1>> ELSE <<1, 1>>)

\* WER("a b c", "a b") has been computed and is 1/3
C27_Witness ==
    /\ Returned("ComputeWER")
    /\ texts.reference = WordsOf(<<"a", "b", "c">>)
    /\ texts.hypothesis = WordsOf(<<"a", "b">>)
    /\ scores.wer = <<1, 3>>

\* byte i continues the character started by the byte before it
Continues(text, i) ==
    i > 1 /\ text[i] \in ContinuationBytes /\ text[i - 1] \in LeadBytes

\* the text is valid UTF-8: a lead byte is followed by a continuation byte
\* and a continuation byte follows a lead byte
WellFormed(text) ==
    \A i \in 1..Len(text) :
        /\ text[i] \in LeadBytes => (i < Len(text) /\ text[i + 1] \in ContinuationBytes)
        /\ text[i] \in ContinuationBytes => Continues(text, i)

\* the characters of a valid text, each as the bytes that encode it
Characters(text) ==
    LET starts == {i \in 1..Len(text) : ~Continues(text, i)}
    IN [k \in 1..Cardinality(starts) |->
          LET i == Nth(starts, k)
          IN IF i < Len(text) /\ Continues(text, i + 1)
             THEN SubSeq(text, i, i + 1) ELSE SubSeq(text, i, i)]

\* h is r with the multi-byte character at one position replaced
OneMultiByteReplaced(r, h) ==
    /\ Len(r) = Len(h)
    /\ \E i \in 1..Len(r) :
          /\ Len(r[i]) > 1
          /\ r[i] # h[i]
          /\ \A j \in 1..Len(r) : j # i => r[j] = h[j]

\* C28: ComputeCER works on code points, not bytes. CER(s, s) = 0 for
\* every non-empty s; for valid texts it is the edit distance between the
\* two character sequences divided by the number of characters of the
\* reference, so replacing one multi-byte character of a k-character
\* reference by another character gives 1/k.
C28_CharacterErrorRate ==
    Returned("ComputeCER") =>
        LET c == scores.cer
        IN /\ (texts.reference = texts.hypothesis /\ texts.reference # <<>>) =>
                 c[1] = 0 /\ c[2] >= 1
           /\ (WellFormed(texts.reference) /\ WellFormed(texts.hypothesis)
                 /\ texts.reference # <<>>) =>
                 LET r == Characters(texts.reference)
                     h == Characters(texts.hypothesis)
                 IN /\ c = <<levenshteinDistance(r, h), Len(r)>>
                    /\ (Len(r) <= MaxAligned /\ Len(h) <= MaxAligned)
                          => c[1] = MinEdits(r, h)
                    /\ OneMultiByteReplaced(r, h) => c = <<1, Len(r)>>

\* the two-character reference "a" U+00E9 against "a" U+00F6: CER is 1/2
C28_Witness ==
    /\ Returned("ComputeCER")
    /\ texts.reference = <<"a", "C3", "A9">>
    /\ texts.hypothesis = <<"a", "C3", "B6">>
    /\ OneMultiByteReplaced(Characters(texts.reference), Characters(texts.hypothesis))
    /\ scores.cer = <<1, 2>>

\* the returned value bp * exp(sum(log p_n) / maxN) is exactly 1.0: no
\* brevity penalty and every precision is 1
IsPerfect(b) ==
    /\ ~b.zero
    /\ b.refLen = 0
    /\ \A n \in 1..maxN : b.precisions[n][1] = b.precisions[n][2]

\* C29: ComputeBLEU of a text against itself is a perfect score:
\* BLEU("the cat sat", "the cat sat") = 1.0.
C29_SelfBLEUIsPerfect ==
    (Returned("ComputeBLEU")
       /\ texts.reference = Join(<<The, Cat, Sat>>)
       /\ texts.hypothesis = Join(<<The, Cat, Sat>>))
    => IsPerfect(scores.bleu)

\* C30: ComputeBLEU returns a value in [0, 1] for every reference and
\* hypothesis, texts with repeated words included: each of the four n-gram
\* precisions is at most 1, the matched count never exceeding the
\* precision's denominator.
C30_BLEUWithinUnitInterval ==
    (Returned("ComputeBLEU") /\ ~scores.bleu.zero) =>
        \A n \in 1..maxN : scores.bleu.precisions[n][1] <= scores.bleu.precisions[n][2]

\* the n-grams of a word sequence, as word sequences
Grams(ws, n) == {SubSeq(ws, i, i + n - 1) : i \in 1..(Len(ws) - n + 1)}

\* the number of occurrences of the n-gram g in ws
Occurrences(ws, g) ==
    Cardinality({i \in 1..(Len(ws) - Len(g) + 1) : SubSeq(ws, i, i + Len(g) - 1) = g})

RECURSIVE ClippedOver(_, _, _)
\* the sum over the n-grams gs of min(count in hypothesis, count in reference)
ClippedOver(gs, refWords, hypWords) ==
    IF gs = {} THEN 0
    ELSE LET g == CHOOSE x \in gs : TRUE
             h == Occurrences(hypWords, g)
             r == Occurrences(refWords, g)
         IN (IF h < r THEN h ELSE r) + ClippedOver(gs \ {g}, refWords, hypWords)

\* p is the clipped n-gram precision: clipped matches over the number of
\* n-grams of the hypothesis, repetitions counted; 0 when it has none
IsClippedPrecision(p, refWords, hypWords, n) ==
    IF Len(hypWords) < n THEN p[1] = 0
    ELSE p[1] * (Len(hypWords) - n + 1)
            = ClippedOver(Grams(hypWords, n), refWords, hypWords) * p[2]

\* C31: for n = 1..4 the precision ComputeBLEU uses is the sum over the
\* hypothesis's distinct n-grams of min(count in hypothesis, count in
\* reference), divided by the total number of n-grams of the hypothesis
\* (|hypothesis| - n + 1, repetitions counted).
C31_ClippedPrecision ==
    Returned("ComputeBLEU") =>
        LET refWords == Fields(texts.reference)
            hypWords == Fields(texts.hypothesis)
        IN \A n \in 1..maxN :
              /\ IsClippedPrecision(Precision(refWords, hypWords, n), refWords, hypWords, n)
              /\ ~scores.bleu.zero =>
                    IsClippedPrecision(scores.bleu.precisions[n], refWords, hypWords, n)

\* a precision of ComputeBLEU is 0
SomePrecisionZero ==
    \E n \in 1..maxN :
        Precision(Fields(texts.reference), Fields(texts.hypothesis), n)[1] = 0

C33_FixedDelayBetweenAttempts ==
    /\ [](dlpc # "idle" =>
            /\ s3env.delay \in { <<>>, <<"-", "5">> } => retryDelay = 20
            /\ s3env.delay = <<"0">> => retryDelay = 0
            /\ s3env.delay = <<"7">> => retryDelay = 7
            /\ \A i \in 1..Len(slept) : slept[i] = retryDelay
            /\ dlpc \in {"get", "read"} => Len(slept) = attempt - 1
            /\ dlpc = "get" => attemptsMade = attempt - 1
            /\ dlpc = "read" => attemptsMade = attempt
            /\ dlpc = "done" => Len(slept) = attemptsMade - 1)
    /\ [][ slept' # slept =>
             /\ slept' = Append(slept, retryDelay)
             /\ attempt < maxAttempts
             /\ plan[attempt].kind # "ok"
             /\ attempt' = attempt + 1
             /\ dlpc' = "get" ]_vars

\* three failed attempts with S3_RETRY_DELAY_SECONDS = 7: two sleeps of 7 s
C33_Witness ==
    /\ dlpc = "done" /\ ~dlret.ok
    /\ s3env.delay = <<"7">>
    /\ attemptsMade = 3
    /\ slept = <<7, 7>>

\* the attempts that the plan lets succeed, among those the call may make
Successes == {i \in 1..maxAttempts : plan[i].kind = "ok"}

\* C34: DownloadS3Object does not tell error kinds apart. The number of
\* attempts, the number of sleeps and the outcome of a call are determined
\* by the positions of the failing attempts alone, so a run with "not
\* found" errors and a run with transient errors at the same positions end
\* alike; a call that fails has made all maxAttempts attempts, whatever the
\* errors were, and a "not found" before the last attempt is followed by
\* the next attempt.
C34_ErrorKindsRetryAlike ==
    /\ [](dlpc = "done" =>
            LET k == IF Successes = {} THEN maxAttempts
                     ELSE CHOOSE i \in Successes : \A j \in Successes : i <= j
            IN /\ attemptsMade = k
               /\ Len(slept) = k - 1
               /\ dlret.ok <=> Successes # {}
               /\ ~dlret.ok => attemptsMade = maxAttempts)
    /\ [][ (dlpc = "get" /\ plan[attempt].kind = "getErr" /\ attempt < maxAttempts)
              => (dlpc' = "get" /\ attempt' = attempt + 1 /\ Len(slept') = Len(slept) + 1)
         ]_vars

\* three attempts that all answered "not found": the call retried twice
\* before it failed
C34_Witness ==
    /\ dlpc = "done" /\ ~dlret.ok
    /\ maxAttempts = 3 /\ attemptsMade = 3 /\ Len(slept) = 2
    /\ \A i \in 1..3 : plan[i].kind = "getErr" /\ plan[i].err = "NotFound"
    /\ dlret.wraps.e = "NotFound"

(***************************************************************************)
(* Further properties of the result store                                  *)
(***************************************************************************)
\* the deliveries whose result has been written to the row of w
WritersOf(w) ==
    {v \in Deliveries :
        /\ StoredBy(v) /\ msg[v].chan = msg[w].chan
        /\ result[v].FileName = result[w].FileName}

\* C35: the stored timestamp of a result row never moves backwards: once
\* the deliveries of a job have stored their results, the row carries the
\* metrics and the updated timestamp of the result that was stamped last.
C35_TimestampNeverMovesBack ==
    \A w \in Deliveries :
        StoredBy(w) =>
            \A x \in RowsFor(TableOf(msg[w].chan), result[w].FileName) :
                /\ x.updated_at >= result[w].Timestamp
                /\ (\A v \in WritersOf(w) :
                        result[v].Timestamp <= result[w].Timestamp)
                      => SameMetrics(x, result[w])

\* the worker of delivery w has called AnalyzeTranscripts / AnalyzeSummary
Analyzing(w) == \E i \in DOMAIN calls[w] : calls[w][i] = "Analyze"

\* C36: every analysis a worker starts has a non-empty job id, a non-empty
\* bucket and non-empty reference and hypothesis keys; a message that decodes
\* as JSON but lacks those fields starts no analysis.
C36_AnalysisHasJobBucketAndKeys ==
    \A w \in Deliveries :
        Analyzing(w) =>
            /\ payload[w].Job # <<>>
            /\ payload[w].Bucket # ""
            /\ payload[w].File1 # <<>>
            /\ payload[w].File2 # <<>>

(***************************************************************************)
(* Further properties of correction-event ingestion                        *)
(***************************************************************************)
\* committed explanation, word and sentence rows
ChildRows == db.explanations \cup db.words \cup db.sentences
\* the committed child rows written by call p
ChildRowsOf(p) == {x \in ChildRows : x.by = p}

\* C37: the event id a successful IngestCorrectionEvent call with prompt id P
\* returns is the id of a committed event row whose prompt id is P, every
\* explanation, word and sentence row the call inserted references that
\* event, and every committed child row references a committed event.
C37_ReturnedIdIsCommittedEvent ==
    /\ \A p \in Procs :
          Succeeded(p) =>
              /\ \E e \in db.events :
                    e.id = ret[p].id /\ e.prompt_id = req[p].PromptId
              /\ \A x \in ChildRowsOf(p) : x.event_id = ret[p].id
    /\ \A x \in ChildRows : \E e \in db.events : e.id = x.event_id

\* a call inserted the event row of a prompt id and rolled back; another
\* call with that prompt id then succeeded and committed child rows
C37_Witness ==
    \E p, q \in Procs :
        /\ p # q /\ req[p].PromptId = req[q].PromptId
        /\ Failed(q) /\ rowsEv[q] = 1
        /\ Succeeded(p) /\ ChildRowsOf(p) # {}

\* delivery w executes its storeAnalysisResult statement in this step
Stores(w) == wpc[w] = "store" /\ wpc'[w] = "stored"

\* C38: an upsert of an existing result row changes only wer, cer, bleu and
\* the updated timestamp: the row keeps its key, its id and its creation
\* timestamp, and the rows of other jobs and of the other result table are
\* unchanged.
C38_UpsertChangesOnlyMetrics ==
    [][\A w \in Deliveries :
          LET t == TableOf(msg[w].chan)
              k == result[w].FileName
          IN (Stores(w) /\ RowsFor(t, k) # {}) =>
                /\ \A x \in RowsFor(t, k) :
                      tables'[t] \ tables[t] \subseteq
                          {[x EXCEPT !.wer = result[w].WER,
                                     !.cer = result[w].CER,
                                     !.bleu = result[w].BLEU,
                                     !.updated_at = result[w].Timestamp]}
                /\ Cardinality(tables'[t]) = Cardinality(tables[t])
                /\ \A x \in tables[t] : x.file_name # k => x \in tables'[t]
                /\ \A u \in TableNames \ {t} : tables'[u] = tables[u]]_vars

\* a second result was written over the row of its job: the row carries the
\* id and creation timestamp of the first write and a later update timestamp
C38_Witness ==
    \E w, v \in Deliveries :
        /\ w # v /\ StoredBy(w) /\ StoredBy(v)
        /\ \E x \in RowsFor(TableOf(msg[w].chan), result[w].FileName) :
              /\ x.id = 1 /\ table_seq[TableOf(msg[w].chan)] = 2
              /\ x.created_at = result[v].Timestamp
              /\ x.updated_at = result[w].Timestamp
              /\ x.updated_at > x.created_at

\* the value a request's int field holds when the JSON body omits it
Omitted == 0

\* C39: a correction event ingested without a version is stored with
\* version 1, and an explanation ingested without an explanation version is
\* stored with explanation version 1.
C39_OmittedVersionStoredAsOne ==
    \A p \in Procs :
        /\ \A e \in db.events :
              (e.by = p /\ req[p].Version = Omitted) => e.version = 1
        /\ \A x \in db.explanations :
              (x.by = p /\ req[p].Explanations[x.k].explanationVersion = Omitted)
                  => x.explanation_version = 1

====
